---------------------------- MODULE Spec2Model ----------------------------
(***************************************************************************)
(* HERPath AI: the versioned roadmap store (database/firestore_client.py), *)
(* the output sanitation pass (utils/json_validator.py), the rule engine   *)
(* (utils/rule_engine.py) and the page handlers that drive them (ui/).     *)
(*                                                                         *)
(* Python dicts are functions from the keys that are present to their      *)
(* values: "k in d" is k \in DOMAIN d, d.get(k, v) is Get(d, k, v).        *)
(* An Optional value is a set with at most one element.  A JSON number or  *)
(* string that int() is applied to is tagged with its type: [int |-> 12],  *)
(* [float |-> 125] (tenths: 12.5), [str |-> <<"1", "2">>].                 *)
(*                                                                         *)
(* The store is the Firestore-backed one: the collection 'roadmaps' is the *)
(* sequence roadmaps (a document's id is its index) and 'tasks' is the     *)
(* sequence tasks.  Timestamps (datetime.utcnow()) are readings of clock.  *)
(*                                                                         *)
(* Specifications:                                                         *)
(*   Spec         every store call runs to completion, one after another   *)
(*   SpecSteps    create_roadmap as the separate store operations it is    *)
(*                made of, interleaved between sessions and interruptible  *)
(*   SpecSanitize sanitize_roadmap_output / ensure_week_continuity applied *)
(*                to generator output                                      *)
(*   SpecEval     RuleEngine.evaluate applied to its inputs                *)
(*   SpecMissed   RuleEngine._check_missed_tasks over task counts          *)
(*   SpecAhead    RuleEngine._check_ahead_of_schedule over weeks            *)
(*   SpecHours    RuleEngine._check_hours_change over weekly hours          *)
(*   SpecApp      one visitor of the application: onboarding, the task      *)
(*                checkboxes, week navigation, the progress page and the    *)
(*                rebalance handlers, against the store                     *)
(*   SpecPersist  the handlers that persist a roadmap, over what the        *)
(*                generation may return                                     *)
(*   SpecOutage   the store methods when calls to the backend raise          *)
(*   SpecRebalance simple_rebalance over weeks and weekly hours              *)
(***************************************************************************)
EXTENDS Integers, Sequences, FiniteSets, TLC

VARIABLES
    roadmaps,            \* collection 'roadmaps': Seq of roadmap documents
    tasks,               \* collection 'tasks': Seq of task documents
    clock,               \* source of datetime.utcnow()
    ret,                 \* what the last completed store call did and returned
    calls,               \* per session: the create_roadmap call in progress
    interrupted,         \* history: uids with a create_roadmap that was cut
                         \* short or overlapped by another one
    body,                \* a roadmap body as the generator returned it
    sanitized,           \* Seq: the body after each sanitation pass applied so far
    passes,              \* Seq: the passes applied, "sanitize" or "continuity"
    engine,              \* the RuleEngine instance (its thresholds)
    progress_data,       \* evaluate's inputs ...
    user_data,
    roadmap_data,
    previous_user_data,
    recommendation,      \* ... and what it returned
    users,               \* collection 'users': per uid, the profile if any
    progress_summary,    \* collection 'progress_summary': per uid, the
                         \* snapshot update_progress wrote last, if any
    pipeline,            \* the page handler that is building a roadmap to
                         \* persist: its position, its locals, the calls made
                         \* (in SpecRebalance: the call of simple_rebalance)
    clicks               \* history: the buttons the visitor has pressed so far

storeVars == <<roadmaps, tasks, clock, ret, calls, interrupted>>
sanVars   == <<body, sanitized, passes>>
evalVars  == <<engine, progress_data, user_data, roadmap_data,
               previous_user_data, recommendation>>
appVars   == <<users, progress_summary, pipeline, clicks>>
vars      == <<roadmaps, tasks, clock, ret, calls, interrupted,
               body, sanitized, passes,
               engine, progress_data, user_data, roadmap_data,
               previous_user_data, recommendation,
               users, progress_summary, pipeline, clicks>>

---------------------------------------------------------------------------
(* Bounds of the model *)

MaxVersions  == 3   \* roadmap documents the collection may hold
MaxWeek      == 2   \* largest week pointer update_current_week is given
MaxPhases    == 2   \* phases of a generated roadmap body
MaxBodyWeeks == 3   \* weeks of a generated roadmap body, all phases together
MaxClicks    == 4   \* buttons a visitor of the application presses
MaxPasses    == 4   \* sanitation passes applied to one body
MaxPlanWeeks == 12  \* total_weeks of a roadmap handed to simple_rebalance
MaxNewHours  == 15  \* weekly hours handed to simple_rebalance

Uids     == {"u1", "u2"}
Sessions == {"s1", "s2"}

---------------------------------------------------------------------------
(* Python dictionaries *)

Get(d, k, default) == IF k \in DOMAIN d THEN d[k] ELSE default

SetKey(d, k, v) == [q \in DOMAIN d \cup {k} |-> IF q = k THEN v ELSE d[q]]

SetDefault(d, k, v) == IF k \in DOMAIN d THEN d ELSE SetKey(d, k, v)

---------------------------------------------------------------------------
(* utils/json_validator.py *)

DigitValue == [c \in {"0", "1", "2", "3", "4", "5", "6", "7", "8", "9"} |->
                 CASE c = "0" -> 0 [] c = "1" -> 1 [] c = "2" -> 2
                   [] c = "3" -> 3 [] c = "4" -> 4 [] c = "5" -> 5
                   [] c = "6" -> 6 [] c = "7" -> 7 [] c = "8" -> 8
                   [] c = "9" -> 9]

RECURSIVE DecimalValue(_)
DecimalValue(cs) ==
    IF cs = <<>> THEN 0
    ELSE 10 * DecimalValue(SubSeq(cs, 1, Len(cs) - 1)) + DigitValue[cs[Len(cs)]]

ValueError == [exception |-> "ValueError"]

Raised(r) == "exception" \in DOMAIN r

\* int(v): an int is kept, a float is truncated towards zero, a string of
\* decimal digits is parsed, any other string raises ValueError.
PyInt(v) ==
    IF "int" \in DOMAIN v THEN v
    ELSE IF "float" \in DOMAIN v
    THEN [int |-> IF v.float >= 0 THEN v.float \div 10
                  ELSE -((-v.float) \div 10)]
    ELSE IF v.str # <<>> /\ \A k \in DOMAIN v.str : v.str[k] \in DOMAIN DigitValue
    THEN [int |-> DecimalValue(v.str)]
    ELSE ValueError

\* Fault injection for SanitizeWeek: the week number and the tasks are set
\* whether the week had them or not.
SanitizeWeekOverwriting(week) ==
    LET w1 == SetKey(week, "week_number", 1)
        w2 == SetDefault(w1, "focus_skill", "General Learning")
        w3 == SetKey(w2, "tasks", <<>>)
        w4 == SetDefault(w3, "milestone", "Complete weekly tasks")
    IN  SetDefault(w4, "success_metric", "All tasks completed")

\* Lines 126-135: the defaults of a week.
SanitizeWeek(week) ==
    LET w1 == SetDefault(week, "week_number", 1)
        w2 == SetDefault(w1, "focus_skill", "General Learning")
        w3 == SetDefault(w2, "tasks", <<>>)
        w4 == SetDefault(w3, "milestone", "Complete weekly tasks")
    IN  SetDefault(w4, "success_metric", "All tasks completed")

\* Lines 119-135: the defaults of a phase and of its weeks.
SanitizePhase(phase) ==
    LET p1 == SetDefault(phase, "phase_name", "Unnamed Phase")
        p2 == SetDefault(p1, "weeks", <<>>)
    IN  SetKey(p2, "weeks", [j \in DOMAIN p2.weeks |-> SanitizeWeek(p2.weeks[j])])

\* sanitize_roadmap_output(data)
SanitizeRoadmapOutput(data) ==
    IF "total_weeks" \in DOMAIN data /\ Raised(PyInt(data.total_weeks))
    THEN PyInt(data.total_weeks)
    ELSE LET s1 == IF "total_weeks" \in DOMAIN data
                   THEN SetKey(data, "total_weeks", PyInt(data.total_weeks))
                   ELSE data
             s2 == SetDefault(s1, "phases", <<>>)
         IN  SetKey(s2, "phases",
                    [i \in DOMAIN s2.phases |-> SanitizePhase(s2.phases[i])])

\* Fault injection for RenumberPhases: the counter starts again in every phase.
RECURSIVE RenumberPerPhase(_, _)
RenumberPerPhase(phases, week_counter) ==
    IF phases = <<>> THEN <<>>
    ELSE LET phase == Head(phases)
             weeks == Get(phase, "weeks", <<>>)
             done  == IF "weeks" \in DOMAIN phase
                      THEN SetKey(phase, "weeks",
                              [j \in DOMAIN weeks |->
                                  SetKey(weeks[j], "week_number", j)])
                      ELSE phase
         IN  <<done>> \o RenumberPerPhase(Tail(phases), 1)

\* Fault injection for RenumberPhases: the counter is added to the week
\* number that is there (week['week_number'] += week_counter).
RECURSIVE RenumberByOffset(_, _)
RenumberByOffset(phases, week_counter) ==
    IF phases = <<>> THEN <<>>
    ELSE LET phase == Head(phases)
             weeks == Get(phase, "weeks", <<>>)
             done  == IF "weeks" \in DOMAIN phase
                      THEN SetKey(phase, "weeks",
                              [j \in DOMAIN weeks |->
                                  SetKey(weeks[j], "week_number",
                                         Get(weeks[j], "week_number", 0)
                                            + week_counter + j - 1)])
                      ELSE phase
         IN  <<done>> \o RenumberByOffset(Tail(phases), week_counter + Len(weeks))

\* The loops of ensure_week_continuity from a given value of week_counter:
\* every week of phase.get('weeks', []) gets the counter, which then moves on.
RECURSIVE RenumberPhases(_, _)
RenumberPhases(phases, week_counter) ==
    IF phases = <<>> THEN <<>>
    ELSE LET phase == Head(phases)
             weeks == Get(phase, "weeks", <<>>)
             done  == IF "weeks" \in DOMAIN phase
                      THEN SetKey(phase, "weeks",
                              [j \in DOMAIN weeks |->
                                  SetKey(weeks[j], "week_number",
                                         week_counter + j - 1)])
                      ELSE phase
         IN  <<done>> \o RenumberPhases(Tail(phases), week_counter + Len(weeks))

\* ensure_week_continuity(phases)
EnsureWeekContinuity(phases) == RenumberPhases(phases, 1)

\* The body the next pass is applied to.
CurrentBody == IF sanitized = <<>> THEN body ELSE sanitized[Len(sanitized)]

\* new_roadmap = sanitize_roadmap_output(new_roadmap): first, or on the
\* outcome of a continuity pass.
Sanitize ==
    /\ Len(passes) < MaxPasses
    /\ IF passes = <<>> THEN TRUE ELSE passes[Len(passes)] = "continuity"
    /\ ~Raised(CurrentBody)
    /\ sanitized' = Append(sanitized, SanitizeRoadmapOutput(CurrentBody))
    /\ passes' = Append(passes, "sanitize")
    /\ UNCHANGED body

\* new_roadmap['phases'] = ensure_week_continuity(new_roadmap['phases']):
\* on a list of phases as it came, or on the outcome of sanitize.
EnsureContinuity ==
    /\ Len(passes) < MaxPasses
    /\ IF passes = <<>> THEN TRUE ELSE passes[Len(passes)] = "sanitize"
    /\ ~Raised(CurrentBody)
    /\ "phases" \in DOMAIN CurrentBody
    /\ sanitized' = Append(sanitized,
                       SetKey(CurrentBody, "phases",
                              EnsureWeekContinuity(CurrentBody.phases)))
    /\ passes' = Append(passes, "continuity")
    /\ UNCHANGED body

---------------------------------------------------------------------------
(* utils/rule_engine.py *)
(* A percentage the code computes as (a / b) * 100 is the fraction          *)
(* [num |-> a * 100, den |-> b] with den > 0, and is compared exactly.      *)
(* None is the empty function; a trigger of None is "none".                 *)

MISSED_TASK_THRESHOLD_PERCENT  == 30
AHEAD_THRESHOLD_PERCENT        == 20
HOURS_CHANGE_THRESHOLD_PERCENT == 25
HIGH_SEVERITY_PERCENT          == 50

None == <<>>

ZeroDivisionError == [exception |-> "ZeroDivisionError"]

\* (a / b) * 100
Percent(a, b) == IF b = 0 THEN ZeroDivisionError ELSE [num |-> a * 100, den |-> b]

\* pct >= k for a fraction pct
AtLeast(pct, k) == pct.num >= k * pct.den

\* "if x:" for an Optional number and for an Optional dict
TruthyNumber(x) == \E v \in x : v # 0

TruthyDict(x) == \E d \in x : DOMAIN d # {}

\* RuleEngine.__init__(missed_threshold, ahead_threshold)
RuleEngineInit(missed_threshold, ahead_threshold) ==
    [MISSED_TASK_THRESHOLD_PERCENT |->
         IF TruthyNumber(missed_threshold) THEN CHOOSE v \in missed_threshold : TRUE
         ELSE MISSED_TASK_THRESHOLD_PERCENT,
     AHEAD_THRESHOLD_PERCENT |->
         IF TruthyNumber(ahead_threshold) THEN CHOOSE v \in ahead_threshold : TRUE
         ELSE AHEAD_THRESHOLD_PERCENT,
     HOURS_CHANGE_THRESHOLD_PERCENT |-> HOURS_CHANGE_THRESHOLD_PERCENT]

RebalanceRecommendation(trigger, severity, message) ==
    [should_rebalance |-> TRUE, trigger |-> trigger, severity |-> severity,
     message |-> message]

\* f"{pct:.0f}": the nearest integer, a tie going to the even one.  For the
\* fractions of up to 39 tasks the float behind pct rounds the same way.
FormatRounded(pct) ==
    LET q == pct.num \div pct.den
        r == pct.num % pct.den
    IN  ToString(IF 2 * r < pct.den \/ (2 * r = pct.den /\ q % 2 = 0) THEN q ELSE q + 1)

MissedMessage(missed_percent) ==
    "You've missed " \o FormatRounded(missed_percent)
        \o "% of tasks. Let's adjust your roadmap to be more achievable."

AheadMessage ==
    "Amazing progress! You're ahead of schedule. Would you like to add advanced topics?"

HoursMessage(direction) ==
    "Your weekly hours " \o direction \o ". Let's adjust your roadmap accordingly."

\* Fault injection for CheckMissedTasks: no guard on total_tasks == 0.
CheckMissedTasksUnguarded(self, progress, roadmap) ==
    LET total_tasks    == Get(progress, "total_tasks_count", 0)
        missed_tasks   == Get(progress, "missed_tasks_count", 0)
        missed_percent == Percent(missed_tasks, total_tasks)
    IN  IF Raised(missed_percent) THEN missed_percent
        ELSE IF AtLeast(missed_percent, self.MISSED_TASK_THRESHOLD_PERCENT)
        THEN RebalanceRecommendation("missed_tasks",
                 IF AtLeast(missed_percent, HIGH_SEVERITY_PERCENT)
                 THEN "high" ELSE "medium",
                 MissedMessage(missed_percent))
        ELSE None

\* Fault injection for CheckMissedTasks: the threshold must be exceeded.
CheckMissedTasksStrict(self, progress, roadmap) ==
    LET total_tasks    == Get(progress, "total_tasks_count", 0)
        missed_tasks   == Get(progress, "missed_tasks_count", 0)
        missed_percent == Percent(missed_tasks, total_tasks)
    IN  IF total_tasks = 0 THEN None
        ELSE IF missed_percent.num > self.MISSED_TASK_THRESHOLD_PERCENT * missed_percent.den
        THEN RebalanceRecommendation("missed_tasks",
                 IF AtLeast(missed_percent, HIGH_SEVERITY_PERCENT)
                 THEN "high" ELSE "medium",
                 MissedMessage(missed_percent))
        ELSE None

\* _check_missed_tasks(progress_data, roadmap_data)
CheckMissedTasks(self, progress, roadmap) ==
    LET total_tasks    == Get(progress, "total_tasks_count", 0)
        missed_tasks   == Get(progress, "missed_tasks_count", 0)
        missed_percent == Percent(missed_tasks, total_tasks)
    IN  IF total_tasks = 0 THEN None
        ELSE IF AtLeast(missed_percent, self.MISSED_TASK_THRESHOLD_PERCENT)
        THEN RebalanceRecommendation("missed_tasks",
                 IF AtLeast(missed_percent, HIGH_SEVERITY_PERCENT)
                 THEN "high" ELSE "medium",
                 MissedMessage(missed_percent))
        ELSE None

\* Fault injection for CheckAheadOfSchedule: the threshold must be exceeded.
CheckAheadOfScheduleStrict(self, progress, roadmap) ==
    LET completion_pct == Get(progress, "completion_percentage", 0)
        current_week   == Get(roadmap, "current_week", 1)
        total_weeks    == Get(roadmap, "total_weeks", 1)
        expected_pct   == IF total_weeks > 0 THEN Percent(current_week, total_weeks)
                          ELSE [num |-> 0, den |-> 1]
    IN  IF completion_pct * expected_pct.den
             > expected_pct.num + self.AHEAD_THRESHOLD_PERCENT * expected_pct.den
        THEN RebalanceRecommendation("ahead_of_schedule", "low", AheadMessage)
        ELSE None

\* _check_ahead_of_schedule(progress_data, roadmap_data): with total_weeks
\* not above 0 the expected percentage is 0.
CheckAheadOfSchedule(self, progress, roadmap) ==
    LET completion_pct == Get(progress, "completion_percentage", 0)
        current_week   == Get(roadmap, "current_week", 1)
        total_weeks    == Get(roadmap, "total_weeks", 1)
        expected_pct   == IF total_weeks > 0 THEN Percent(current_week, total_weeks)
                          ELSE [num |-> 0, den |-> 1]
    IN  IF completion_pct * expected_pct.den
             >= expected_pct.num + self.AHEAD_THRESHOLD_PERCENT * expected_pct.den
        THEN RebalanceRecommendation("ahead_of_schedule", "low", AheadMessage)
        ELSE None

Abs(n) == IF n >= 0 THEN n ELSE -n

\* Fault injection for CheckHoursChange: the threshold must be exceeded.
CheckHoursChangeStrict(self, current_user, previous_user) ==
    LET current_hours  == Get(current_user, "weekly_hours", 0)
        previous_hours == Get(previous_user, "weekly_hours", 0)
        change_percent == Percent(Abs(current_hours - previous_hours), previous_hours)
    IN  IF previous_hours = 0 THEN None
        ELSE IF change_percent.num > self.HOURS_CHANGE_THRESHOLD_PERCENT * change_percent.den
        THEN RebalanceRecommendation("hours_changed", "medium",
                 HoursMessage(IF current_hours > previous_hours
                              THEN "increased" ELSE "decreased"))
        ELSE None

\* _check_hours_change(current_user, previous_user)
CheckHoursChange(self, current_user, previous_user) ==
    LET current_hours  == Get(current_user, "weekly_hours", 0)
        previous_hours == Get(previous_user, "weekly_hours", 0)
        change_percent == Percent(Abs(current_hours - previous_hours), previous_hours)
    IN  IF previous_hours = 0 THEN None
        ELSE IF AtLeast(change_percent, self.HOURS_CHANGE_THRESHOLD_PERCENT)
        THEN RebalanceRecommendation("hours_changed", "medium",
                 HoursMessage(IF current_hours > previous_hours
                              THEN "increased" ELSE "decreased"))
        ELSE None

\* Fault injection for CheckDeadlineChange: the severity of a changed situation.
CheckDeadlineChangeMedium(self, current_user, previous_user) ==
    IF Get(current_user, "deadline_type", "None")
          # Get(previous_user, "deadline_type", "None")
    THEN RebalanceRecommendation("deadline_changed", "medium",
             "Your timeline has changed. Let's rebuild your roadmap.")
    ELSE None

\* _check_deadline_change(current_user, previous_user)
CheckDeadlineChange(self, current_user, previous_user) ==
    IF Get(current_user, "deadline_type", "None")
          # Get(previous_user, "deadline_type", "None")
    THEN RebalanceRecommendation("deadline_changed", "high",
             "Your timeline has changed. Let's rebuild your roadmap.")
    ELSE None

\* _check_situation_change(current_user, previous_user)
CheckSituationChange(self, current_user, previous_user) ==
    IF Get(current_user, "situation", "None") # Get(previous_user, "situation", "None")
    THEN RebalanceRecommendation("situation_changed", "medium",
             "Your situation has changed. Let's adjust your plan to fit your new circumstances.")
    ELSE None

\* Fault injection for severity_order: the ranks the other way round.
SeverityOrderReversed == [high |-> 2, medium |-> 1, low |-> 0]

\* severity_order = {"high": 0, "medium": 1, "low": 2}
severity_order == [high |-> 0, medium |-> 1, low |-> 2]

\* key=lambda r: severity_order.get(r.severity, 3)
SortKey(r) == Get(severity_order, r.severity, 3)

\* Fault injection for Insert: r goes behind the entries of its own key.
InsertBehindEqual(r, sorted) ==
    LET before == SelectSeq(sorted, LAMBDA x : SortKey(x) <= SortKey(r))
        after  == SelectSeq(sorted, LAMBDA x : SortKey(x) > SortKey(r))
    IN  before \o <<r>> \o after

\* r, which stood before every entry of sorted, goes in front of the first
\* entry whose key is not smaller: list.sort is stable.
Insert(r, sorted) ==
    LET before == SelectSeq(sorted, LAMBDA x : SortKey(x) < SortKey(r))
        after  == SelectSeq(sorted, LAMBDA x : SortKey(x) >= SortKey(r))
    IN  before \o <<r>> \o after

\* recommendations.sort(key=...)
RECURSIVE Sort(_)
Sort(recommendations) ==
    IF recommendations = <<>> THEN <<>>
    ELSE Insert(Head(recommendations), Sort(Tail(recommendations)))

\* Fault injection for NoRebalance: a severity is left in the fixed answer.
NoRebalanceLow == [should_rebalance |-> FALSE, trigger |-> "none", severity |-> "low",
                   message |-> "You're on track! Keep up the great work."]

NoRebalance == [should_rebalance |-> FALSE, trigger |-> "none", severity |-> "none",
                message |-> "You're on track! Keep up the great work."]

\* evaluate(progress_data, user_data, roadmap_data, previous_user_data)
EvaluateRules(self, progress, user, roadmap, previous) ==
    LET previous_user == CHOOSE d \in previous : TRUE
        results == << CheckMissedTasks(self, progress, roadmap),
                      CheckAheadOfSchedule(self, progress, roadmap) >>
                   \o IF TruthyDict(previous)
                      THEN << CheckHoursChange(self, user, previous_user),
                              CheckDeadlineChange(self, user, previous_user),
                              CheckSituationChange(self, user, previous_user) >>
                      ELSE << >>
        raised == SelectSeq(results, Raised)
        recommendations == SelectSeq(results, LAMBDA r : r # None)
    IN  IF raised # <<>> THEN raised[1]
        ELSE IF recommendations # <<>> THEN Sort(recommendations)[1]
        ELSE NoRebalance

NotEvaluated == [evaluated |-> FALSE]

\* Fault injection for Evaluate: the engine tunes its own threshold on a call.
EvaluateAdapting ==
    /\ recommendation = NotEvaluated
    /\ recommendation' = EvaluateRules(engine, progress_data, user_data,
                                       roadmap_data, previous_user_data)
    /\ engine' = [engine EXCEPT !.MISSED_TASK_THRESHOLD_PERCENT = @ + 1]
    /\ UNCHANGED <<progress_data, user_data, roadmap_data, previous_user_data>>

\* recommendation = rule_engine.evaluate(progress_data=..., user_data=...,
\*     roadmap_data=..., previous_user_data=previous_data)
Evaluate ==
    /\ recommendation = NotEvaluated
    /\ recommendation' = EvaluateRules(engine, progress_data, user_data,
                                       roadmap_data, previous_user_data)
    /\ UNCHANGED <<engine, progress_data, user_data, roadmap_data, previous_user_data>>

\* The page script runs again and makes the call on the same arguments.
EvaluateAgain ==
    /\ recommendation # NotEvaluated
    /\ recommendation' = EvaluateRules(engine, progress_data, user_data,
                                       roadmap_data, previous_user_data)
    /\ UNCHANGED <<engine, progress_data, user_data, roadmap_data, previous_user_data>>

\* missed_result = self._check_missed_tasks(progress_data, roadmap_data)
CheckMissed ==
    /\ recommendation = NotEvaluated
    /\ recommendation' = CheckMissedTasks(engine, progress_data, roadmap_data)
    /\ UNCHANGED <<engine, progress_data, user_data, roadmap_data, previous_user_data>>

\* ahead_result = self._check_ahead_of_schedule(progress_data, roadmap_data)
CheckAhead ==
    /\ recommendation = NotEvaluated
    /\ recommendation' = CheckAheadOfSchedule(engine, progress_data, roadmap_data)
    /\ UNCHANGED <<engine, progress_data, user_data, roadmap_data, previous_user_data>>

\* if previous_user_data:
\*     hours_result = self._check_hours_change(user_data, previous_user_data)
CheckHours ==
    /\ recommendation = NotEvaluated
    /\ TruthyDict(previous_user_data)
    /\ recommendation' = CheckHoursChange(engine, user_data,
                                          CHOOSE d \in previous_user_data : TRUE)
    /\ UNCHANGED <<engine, progress_data, user_data, roadmap_data, previous_user_data>>

---------------------------------------------------------------------------
(* database/schema.py *)

WeekFields  == {"week_number", "focus_skill", "tasks", "milestone",
                "success_metric"}
PhaseFields == {"phase_name", "weeks"}

\* WeekSchema(**w) validates: every field is required.
WeekSchemaValid(w) == WeekFields \subseteq DOMAIN w

\* PhaseSchema(**p) validates.
PhaseSchemaValid(p) ==
    /\ PhaseFields \subseteq DOMAIN p
    /\ \A j \in DOMAIN p.weeks : WeekSchemaValid(p.weeks[j])

\* RoadmapSchema(**d) validates: uid, total_weeks and phases are required,
\* total_weeks is an int.
RoadmapSchemaValid(d) ==
    /\ {"uid", "total_weeks", "phases"} \subseteq DOMAIN d
    /\ "int" \in DOMAIN d.total_weeks
    /\ \A i \in DOMAIN d.phases : PhaseSchemaValid(d.phases[i])

\* model_dump() of a WeekSchema / PhaseSchema: the declared fields only.
WeekDump(w)  == [k \in WeekFields |-> w[k]]
PhaseDump(p) == [phase_name |-> p.phase_name,
                 weeks |-> [j \in DOMAIN p.weeks |-> WeekDump(p.weeks[j])]]

\* RoadmapSchema(**d).model_dump(): keys that are not fields are dropped,
\* absent fields take their defaults (roadmap_version: utcnow()).
RoadmapSchema(d, now) ==
    [uid             |-> d.uid,
     roadmap_version |-> Get(d, "roadmap_version", now),
     total_weeks     |-> d.total_weeks.int,
     current_week    |-> Get(d, "current_week", 1),
     phases          |-> [i \in DOMAIN d.phases |-> PhaseDump(d.phases[i])],
     is_active       |-> Get(d, "is_active", TRUE)]

\* Fault injection for TaskSchema: the id carries the 0-based index.
TaskSchemaZeroBased(uid, roadmap, week, idx) ==
    [uid             |-> uid,
     roadmap_version |-> roadmap.roadmap_version,
     week_number     |-> week.week_number,
     task_id         |-> <<"w", week.week_number, "_t", idx>>,
     title           |-> week.tasks[idx + 1],
     status          |-> "pending",
     completed_at    |-> {}]

\* TaskSchema(...).model_dump() for task idx (0-based) of a week; the id
\* f"w{week_number}_t{idx+1}" is kept as its parts.
TaskSchema(uid, roadmap, week, idx) ==
    [uid             |-> uid,
     roadmap_version |-> roadmap.roadmap_version,
     week_number     |-> week.week_number,
     task_id         |-> <<"w", week.week_number, "_t", idx + 1>>,
     title           |-> week.tasks[idx + 1],
     status          |-> "pending",
     completed_at    |-> {}]

---------------------------------------------------------------------------
(* database/firestore_client.py: roadmap operations *)

\* The documents of a user.
UserDocs(rs, uid) == {i \in DOMAIN rs : rs[i].uid = uid}

\* Fault injection for ActiveDocs: the query finds nothing.
NoDocs(rs, uid) == {}

\* The active documents of a user: the query of lines 134-137 and 149-151.
ActiveDocs(rs, uid) == {i \in DOMAIN rs : rs[i].uid = uid /\ rs[i].is_active}

\* doc.reference.update({'is_active': False})
DeactivateDoc(rs, i) == [rs EXCEPT ![i].is_active = FALSE]

\* Fault injection for DeactivateUserRoadmaps: no document is touched.
DeactivateNothing(rs, uid) == rs

\* _deactivate_user_roadmaps run to completion.
DeactivateUserRoadmaps(rs, uid) ==
    [i \in DOMAIN rs |->
        IF rs[i].uid = uid /\ rs[i].is_active
        THEN [rs[i] EXCEPT !.is_active = FALSE]
        ELSE rs[i]]

\* Fault injection for CollectionAdd: the user's latest document is
\* overwritten instead of a new one being added.
OverwriteLatest(rs, doc) ==
    IF UserDocs(rs, doc.uid) = {} THEN Append(rs, doc)
    ELSE LET last == CHOOSE i \in UserDocs(rs, doc.uid) :
                         \A j \in UserDocs(rs, doc.uid) : j <= i
         IN  [rs EXCEPT ![last] = doc]

\* self.db.collection('roadmaps').add(doc): a new document, a fresh id.
CollectionAdd(rs, doc) == Append(rs, doc)

\* The tasks of one week, of one phase, of all phases, in the order of the
\* loops of _create_tasks_from_roadmap.
WeekTasks(uid, roadmap, week) ==
    [t \in 1..Len(week.tasks) |-> TaskSchema(uid, roadmap, week, t - 1)]

RECURSIVE WeeksTasks(_, _, _)
WeeksTasks(uid, roadmap, weeks) ==
    IF weeks = <<>> THEN <<>>
    ELSE WeekTasks(uid, roadmap, Head(weeks))
            \o WeeksTasks(uid, roadmap, Tail(weeks))

RECURSIVE PhasesTasks(_, _, _)
PhasesTasks(uid, roadmap, phases) ==
    IF phases = <<>> THEN <<>>
    ELSE WeeksTasks(uid, roadmap, Head(phases).weeks)
            \o PhasesTasks(uid, roadmap, Tail(phases))

CreateTasksFromRoadmap(uid, roadmap) == PhasesTasks(uid, roadmap, roadmap.phases)

\* create_roadmap(roadmap_data) run to completion: deactivate, validate,
\* add, create the tasks, return the new id; a validation error is caught
\* after the deactivation and None is returned.
CreateRoadmap(d) ==
    LET uid         == d.uid
        deactivated == DeactivateUserRoadmaps(roadmaps, uid)
    IN  /\ Len(roadmaps) < MaxVersions
        /\ clock' = clock + 1
        /\ IF RoadmapSchemaValid(d)
           THEN LET roadmap == RoadmapSchema(d, clock)
                IN  /\ roadmaps' = CollectionAdd(deactivated, roadmap)
                    /\ tasks' = tasks \o CreateTasksFromRoadmap(uid, roadmap)
                    /\ ret' = [op |-> "create_roadmap", uid |-> uid,
                               ok |-> TRUE, id |-> Len(roadmaps')]
           ELSE /\ roadmaps' = deactivated
                /\ tasks' = tasks
                /\ ret' = [op |-> "create_roadmap", uid |-> uid,
                           ok |-> FALSE, id |-> 0]
        /\ UNCHANGED <<calls, interrupted>>

\* Fault injection for UpdateCurrentWeek: the pointer of every version of
\* the user is set, the inactive ones included.
UpdateCurrentWeekOfAll(uid, week) ==
    /\ roadmaps' = [i \in DOMAIN roadmaps |->
                       IF roadmaps[i].uid = uid
                       THEN [roadmaps[i] EXCEPT !.current_week = week]
                       ELSE roadmaps[i]]
    /\ ret' = [op |-> "update_current_week", uid |-> uid,
               ok |-> ActiveDocs(roadmaps, uid) # {}, id |-> 0]
    /\ UNCHANGED <<tasks, clock, calls, interrupted>>

\* update_current_week(uid, week): get_active_roadmap, then update the
\* pointer of that document; False when there is no active roadmap.
UpdateCurrentWeek(uid, week) ==
    /\ \/ /\ ActiveDocs(roadmaps, uid) = {}
          /\ roadmaps' = roadmaps
          /\ ret' = [op |-> "update_current_week", uid |-> uid,
                     ok |-> FALSE, id |-> 0]
       \/ \E i \in ActiveDocs(roadmaps, uid) :
            /\ roadmaps' = [roadmaps EXCEPT ![i].current_week = week]
            /\ ret' = [op |-> "update_current_week", uid |-> uid,
                       ok |-> TRUE, id |-> i]
    /\ UNCHANGED <<tasks, clock, calls, interrupted>>

\* Fault injection for UpdateTaskStatus: a task that is not checked is
\* stored as skipped.
UpdateTaskStatusSkipping(ts, t, status, now) ==
    [ts EXCEPT ![t].status = IF status = "pending" THEN "skipped" ELSE status,
               ![t].completed_at = IF status = "completed" THEN {now} ELSE @]

\* update_task_status(task_doc_id, status) on the collection ts at time
\* now: the status is set, and completed_at when the status is completed.
UpdateTaskStatus(ts, t, status, now) ==
    [ts EXCEPT ![t].status = status,
               ![t].completed_at = IF status = "completed" THEN {now} ELSE @]

\* Fault injection for CreateRoadmapOutcome: the new version is written
\* over the user's latest document instead of being added.
CreateRoadmapOutcomeInPlace(rs, ts, d, now) ==
    LET deactivated == DeactivateUserRoadmaps(rs, d.uid)
    IN  IF RoadmapSchemaValid(d)
        THEN LET roadmap == RoadmapSchema(d, now)
             IN  [roadmaps |-> OverwriteLatest(deactivated, roadmap),
                  tasks    |-> ts \o CreateTasksFromRoadmap(d.uid, roadmap),
                  id       |-> {Len(OverwriteLatest(deactivated, roadmap))}]
        ELSE [roadmaps |-> deactivated, tasks |-> ts, id |-> {}]

\* create_roadmap(d) on the collections rs and ts at time now: what the
\* collections hold afterwards and the id returned ({} for None).
CreateRoadmapOutcome(rs, ts, d, now) ==
    LET deactivated == DeactivateUserRoadmaps(rs, d.uid)
    IN  IF RoadmapSchemaValid(d)
        THEN LET roadmap == RoadmapSchema(d, now)
             IN  [roadmaps |-> CollectionAdd(deactivated, roadmap),
                  tasks    |-> ts \o CreateTasksFromRoadmap(d.uid, roadmap),
                  id       |-> {Len(rs) + 1}]
        ELSE [roadmaps |-> deactivated, tasks |-> ts, id |-> {}]

---------------------------------------------------------------------------
(* create_roadmap as the store operations it is made of.  A session is      *)
(* between two of them at every pc other than "idle"; another session's     *)
(* operations may come in between, and the process may die there.           *)

Idle == [pc |-> "idle"]

InFlight(uid) == {s \in Sessions : calls[s].pc # "idle" /\ calls[s].d.uid = uid}

\* create_roadmap is entered (line 112).
BeginCreate(s, d) ==
    /\ calls[s].pc = "idle"
    /\ Len(roadmaps) + Cardinality({t \in Sessions : calls[t].pc # "idle"})
          < MaxVersions
    /\ calls' = [calls EXCEPT ![s] = [pc |-> "query", d |-> d, todo |-> {}]]
    /\ interrupted' = IF InFlight(d.uid) # {}
                      THEN interrupted \cup {d.uid} ELSE interrupted
    /\ UNCHANGED <<roadmaps, tasks, clock, ret>>

\* _deactivate_user_roadmaps: the query for the user's active documents.
DeactivateQuery(s) ==
    /\ calls[s].pc = "query"
    /\ calls' = [calls EXCEPT ![s].pc = "update",
                              ![s].todo = ActiveDocs(roadmaps, calls[s].d.uid)]
    /\ UNCHANGED <<roadmaps, tasks, clock, ret, interrupted>>

\* _deactivate_user_roadmaps: one turn of the loop over the query's result.
DeactivateUpdate(s) ==
    /\ calls[s].pc = "update"
    /\ \E i \in calls[s].todo :
         /\ roadmaps' = DeactivateDoc(roadmaps, i)
         /\ calls' = [calls EXCEPT ![s].todo = calls[s].todo \ {i}]
    /\ UNCHANGED <<tasks, clock, ret, interrupted>>

\* RoadmapSchema(**roadmap_data) and collection('roadmaps').add(...), once
\* the deactivation loop is over; a validation error returns None.
AddRoadmap(s) ==
    /\ calls[s].pc = "update"
    /\ calls[s].todo = {}
    /\ clock' = clock + 1
    /\ IF RoadmapSchemaValid(calls[s].d)
       THEN LET roadmap == RoadmapSchema(calls[s].d, clock)
            IN  /\ roadmaps' = CollectionAdd(roadmaps, roadmap)
                /\ calls' = [calls EXCEPT ![s] =
                                [pc |-> "tasks", d |-> calls[s].d,
                                 roadmap |-> roadmap, id |-> Len(roadmaps')]]
                /\ ret' = ret
       ELSE /\ roadmaps' = roadmaps
            /\ calls' = [calls EXCEPT ![s] = Idle]
            /\ ret' = [op |-> "create_roadmap", uid |-> calls[s].d.uid,
                       ok |-> FALSE, id |-> 0]
    /\ UNCHANGED <<tasks, interrupted>>

\* _create_tasks_from_roadmap (one batch commit) and the return of the id.
CommitTasks(s) ==
    /\ calls[s].pc = "tasks"
    /\ tasks' = tasks \o CreateTasksFromRoadmap(calls[s].d.uid, calls[s].roadmap)
    /\ ret' = [op |-> "create_roadmap", uid |-> calls[s].d.uid,
               ok |-> TRUE, id |-> calls[s].id]
    /\ calls' = [calls EXCEPT ![s] = Idle]
    /\ UNCHANGED <<roadmaps, clock, interrupted>>

\* The process dies (or the session is dropped) in the middle of the call.
Crash(s) ==
    /\ calls[s].pc # "idle"
    /\ calls' = [calls EXCEPT ![s] = Idle]
    /\ interrupted' = interrupted \cup {calls[s].d.uid}
    /\ UNCHANGED <<roadmaps, tasks, clock, ret>>

---------------------------------------------------------------------------
(* database/firestore_client.py: users, task queries, progress_summary *)

\* get_active_roadmap(uid): doc.to_dict() | {'doc_id': doc.id} of document i.
\* The stored total_weeks is an int; the dict carries it as the int it is.
GetActiveRoadmap(rs, i) ==
    [uid             |-> rs[i].uid,
     roadmap_version |-> rs[i].roadmap_version,
     total_weeks     |-> [int |-> rs[i].total_weeks],
     current_week    |-> rs[i].current_week,
     phases          |-> rs[i].phases,
     is_active       |-> rs[i].is_active,
     doc_id          |-> i]

\* get_all_user_tasks(uid): [] without an active roadmap, else the ids of
\* the documents of the query where('uid', '==', uid).
GetAllUserTasks(rs, ts, uid) ==
    IF ActiveDocs(rs, uid) = {} THEN {}
    ELSE {t \in DOMAIN ts : ts[t].uid = uid}

\* get_tasks_for_week(uid, week_number): [] without an active roadmap, else
\* the query where('uid', '==', uid).where('week_number', '==', week_number).
GetTasksForWeek(rs, ts, uid, week_number) ==
    IF ActiveDocs(rs, uid) = {} THEN {}
    ELSE {t \in DOMAIN ts : ts[t].uid = uid /\ ts[t].week_number = week_number}

\* round(x, 1) of x = num / den >= 0, in tenths: to nearest, ties to even.
RoundTenths(num, den) ==
    LET q == (num * 10) \div den
        r == (num * 10) % den
    IN  IF 2 * r > den \/ (2 * r = den /\ q % 2 = 1) THEN q + 1 ELSE q

\* Lines 300-325 of update_progress: the snapshot computed from the tasks
\* the query returned (ids) and the active roadmap document.
ProgressData(uid, roadmap, ts, ids) ==
    LET total        == Cardinality(ids)
        completed    == Cardinality({t \in ids : ts[t].status = "completed"})
        missed       == Cardinality({t \in ids : ts[t].status = "skipped"})
        current_week == roadmap.current_week
        total_weeks  == roadmap.total_weeks
        \* completion_pct >= expected_pct, completion_pct > expected_pct + 10
        reached      == IF total_weeks > 0
                        THEN completed * total_weeks >= current_week * total
                        ELSE TRUE
        beyond       == IF total_weeks > 0
                        THEN 10 * completed * total_weeks
                                > 10 * current_week * total + total * total_weeks
                        ELSE 10 * completed > total
    IN  [uid                   |-> uid,
         completion_percentage |-> [float |-> RoundTenths(completed * 100, total)],
         missed_tasks_count    |-> missed,
         completed_tasks_count |-> completed,
         total_tasks_count     |-> total,
         pace_status           |-> IF reached
                                   THEN IF beyond THEN "ahead" ELSE "on_track"
                                   ELSE "behind",
         current_week          |-> current_week]

\* update_progress(uid) on the collections rs and ts: None, and nothing is
\* written, when there are no tasks or no active roadmap; else the
\* snapshot replaces the document progress_summary/<uid>.
UpdateProgress(uid, rs, ts) ==
    /\ \/ /\ GetAllUserTasks(rs, ts, uid) = {}
          /\ progress_summary' = progress_summary
          /\ ret' = [op |-> "update_progress", uid |-> uid, ok |-> FALSE, id |-> 0]
       \/ /\ GetAllUserTasks(rs, ts, uid) # {}
          /\ \E i \in ActiveDocs(rs, uid) :
               /\ progress_summary' =
                     [progress_summary EXCEPT ![uid] =
                         {ProgressData(uid, rs[i], ts, GetAllUserTasks(rs, ts, uid))}]
               /\ ret' = [op |-> "update_progress", uid |-> uid,
                          ok |-> TRUE, id |-> i]

\* create_user(uid, user_data): the document users/<uid> is set.
CreateUser(us, uid, data) == [us EXCEPT ![uid] = {data}]

\* update_user(uid, updates) with updates = {'weekly_hours': h}.
UpdateUser(us, uid, h) ==
    [us EXCEPT ![uid] = {[d EXCEPT !.weekly_hours = h] : d \in us[uid]}]

---------------------------------------------------------------------------
(* database/firestore_client.py when calls to the backend raise.  failing   *)
(* is the set of backend calls that raise during the method; ret.failed is  *)
(* the set of those that were reached and did raise, ret.raised whether an  *)
(* exception left the method.                                               *)

\* The backend calls of the four methods.
CreateCalls  == {"query", "update", "add", "commit"}
PointerCalls == {"query", "update"}

\* _deactivate_user_roadmaps (lines 129-142): an exception of the query or
\* of the first update is caught inside; no document has been changed.
DeactivateOrFail(rs, uid, failing) ==
    IF "query" \in failing THEN [roadmaps |-> rs, failed |-> {"query"}]
    ELSE IF "update" \in failing /\ ActiveDocs(rs, uid) # {}
         THEN [roadmaps |-> rs, failed |-> {"update"}]
         ELSE [roadmaps |-> DeactivateUserRoadmaps(rs, uid), failed |-> {}]

\* create_roadmap (lines 111-127): the helpers catch their own exceptions,
\* the except of line 125 catches the validation error and the add.
CreateRoadmapOrFail(d, failing) ==
    LET uid  == d.uid
        deac == DeactivateOrFail(roadmaps, uid, failing)
    IN  /\ Len(roadmaps) < MaxVersions
        /\ clock' = clock + 1
        /\ IF ~RoadmapSchemaValid(d)
           THEN /\ roadmaps' = deac.roadmaps
                /\ tasks' = tasks
                /\ ret' = [op |-> "create_roadmap", uid |-> uid, ok |-> FALSE,
                           id |-> 0, failed |-> deac.failed, raised |-> FALSE]
           ELSE IF "add" \in failing
           THEN /\ roadmaps' = deac.roadmaps
                /\ tasks' = tasks
                /\ ret' = [op |-> "create_roadmap", uid |-> uid, ok |-> FALSE,
                           id |-> 0, failed |-> deac.failed \cup {"add"},
                           raised |-> FALSE]
           ELSE LET roadmap == RoadmapSchema(d, clock)
                    made    == CreateTasksFromRoadmap(uid, roadmap)
                    lost    == "commit" \in failing
                IN  /\ roadmaps' = CollectionAdd(deac.roadmaps, roadmap)
                    /\ tasks' = IF lost THEN tasks ELSE tasks \o made
                    /\ ret' = [op |-> "create_roadmap", uid |-> uid,
                               ok |-> TRUE, id |-> Len(roadmaps'),
                               failed |-> deac.failed \cup
                                   (IF lost THEN {"commit"} ELSE {}),
                               raised |-> FALSE]
        /\ UNCHANGED <<calls, interrupted, users>>

\* update_current_week (lines 177-189): get_active_roadmap returns None
\* when its query raises (lines 160-162); the except of line 187 catches
\* the update.
UpdateCurrentWeekOrFail(uid, week, failing) ==
    /\ IF "query" \in failing
       THEN /\ roadmaps' = roadmaps
            /\ ret' = [op |-> "update_current_week", uid |-> uid,
                       ok |-> FALSE, id |-> 0, failed |-> {"query"},
                       raised |-> FALSE]
       ELSE IF ActiveDocs(roadmaps, uid) = {}
       THEN /\ roadmaps' = roadmaps
            /\ ret' = [op |-> "update_current_week", uid |-> uid,
                       ok |-> FALSE, id |-> 0, failed |-> {},
                       raised |-> FALSE]
       ELSE IF "update" \in failing
       THEN /\ roadmaps' = roadmaps
            /\ ret' = [op |-> "update_current_week", uid |-> uid,
                       ok |-> FALSE, id |-> 0, failed |-> {"update"},
                       raised |-> FALSE]
       ELSE \E i \in ActiveDocs(roadmaps, uid) :
            /\ roadmaps' = [roadmaps EXCEPT ![i].current_week = week]
            /\ ret' = [op |-> "update_current_week", uid |-> uid,
                       ok |-> TRUE, id |-> i, failed |-> {},
                       raised |-> FALSE]
    /\ UNCHANGED <<tasks, clock, calls, interrupted, users>>

\* update_task_status (lines 243-254).
UpdateTaskStatusOrFail(t, status, failing) ==
    /\ t \in DOMAIN tasks
    /\ tasks' = IF "update" \in failing THEN tasks
                ELSE UpdateTaskStatus(tasks, t, status, clock)
    /\ ret' = [op |-> "update_task_status", uid |-> tasks[t].uid,
               ok |-> "update" \notin failing, id |-> t,
               failed |-> failing \cap {"update"}, raised |-> FALSE]
    /\ UNCHANGED <<roadmaps, clock, calls, interrupted, users>>

\* update_user (lines 75-87) with updates = {'weekly_hours': h}.
UpdateUserOrFail(uid, h, failing) ==
    /\ users[uid] # {}
    /\ users' = IF "update" \in failing THEN users
                ELSE UpdateUser(users, uid, h)
    /\ ret' = [op |-> "update_user", uid |-> uid,
               ok |-> "update" \notin failing, id |-> 0,
               failed |-> failing \cap {"update"}, raised |-> FALSE]
    /\ UNCHANGED <<roadmaps, tasks, clock, calls, interrupted>>

---------------------------------------------------------------------------
(* agents/roadmap_agent.py, agents/rebalance_agent.py: the deterministic    *)
(* substitutes for a generation that failed                                 *)

Max(a, b) == IF a >= b THEN a ELSE b
Min(a, b) == IF a <= b THEN a ELSE b

\* One week of get_fallback_roadmap.
FallbackWeek(n, focus_skill, ts, milestone, success_metric) ==
    [week_number |-> n, focus_skill |-> focus_skill, tasks |-> ts,
     milestone |-> milestone, success_metric |-> success_metric,
     resources |-> <<>>]

\* get_fallback_roadmap(role, weekly_hours, deadline_weeks); deadline_weeks
\* is {} for None.
GetFallbackRoadmap(weekly_hours, deadline_weeks) ==
    LET total_weeks      == IF \E d \in deadline_weeks : d # 0
                            THEN CHOOSE d \in deadline_weeks : TRUE
                            ELSE Max(8, Min(52, 200 \div weekly_hours))
        foundation_weeks == total_weeks \div 3
        building_weeks   == total_weeks \div 3
        mastery_weeks    == total_weeks - foundation_weeks - building_weeks
    IN  [total_weeks |-> [int |-> total_weeks],
         phases |-> <<
            [phase_name |-> "Phase 1: Foundation",
             phase_description |-> "Build core fundamentals",
             weeks |-> [i \in 1..foundation_weeks |->
                 FallbackWeek(i, "Core Skill " \o ToString(i),
                     <<"Study core concepts (3 hours)",
                       "Practice exercises (2 hours)",
                       "Mini project work (2 hours)">>,
                     "Foundation milestone " \o ToString(i),
                     "Complete all tasks and exercises")]],
            [phase_name |-> "Phase 2: Building",
             phase_description |-> "Apply skills through projects",
             weeks |-> [i \in 1..building_weeks |->
                 FallbackWeek(foundation_weeks + i, "Applied Skill " \o ToString(i),
                     <<"Advanced concepts (2 hours)",
                       "Project development (3 hours)",
                       "Code review/debugging (2 hours)">>,
                     "Building milestone " \o ToString(i),
                     "Working project component")]],
            [phase_name |-> "Phase 3: Mastery & Interview Prep",
             phase_description |-> "Polish skills and prepare for interviews",
             weeks |-> [i \in 1..mastery_weeks |->
                 FallbackWeek(foundation_weeks + building_weeks + i,
                     IF i - 1 >= mastery_weeks - 2 THEN "Interview Preparation"
                     ELSE "Advanced Topic " \o ToString(i),
                     <<"Portfolio refinement (2 hours)",
                       "Interview practice (2 hours)",
                       "Networking/applications (2 hours)">>,
                     "Mastery milestone " \o ToString(i),
                     "Ready for interviews")]] >>,
         buffer_weeks |-> 1]

\* int(x) of the quotient a / b, b > 0: towards zero.
Truncate(a, b) == IF a >= 0 THEN a \div b ELSE -((-a) \div b)

\* Python's float is the IEEE 754 double: a significand of 1 + 52 bits,
\* every operation rounded to the nearest double, ties to the even one.
MantissaBits == 52

RECURSIVE Pow2(_)
Pow2(e) == IF e = 0 THEN 1 ELSE 2 * Pow2(e - 1)

\* The x with 2^x <= a / b < 2^(x + 1), for a, b > 0.
RECURSIVE ExponentUp(_, _, _)
ExponentUp(a, b, x) == IF b * Pow2(x + 1) <= a THEN ExponentUp(a, b, x + 1) ELSE x

RECURSIVE ExponentDown(_, _, _)
ExponentDown(a, b, x) == IF a * Pow2(-x) < b THEN ExponentDown(a, b, x - 1) ELSE x

RatioExponent(a, b) == IF a >= b THEN ExponentUp(a, b, 0) ELSE ExponentDown(a, b, 0)

\* Long division of a0 / b0 in [1, 2): the remainder r and the last bit
\* after `steps` more bits of the significand.
RECURSIVE MantissaRest(_, _, _, _)
MantissaRest(r, lsb, b0, steps) ==
    IF steps = 0 THEN [r |-> r, lsb |-> lsb]
    ELSE IF 2 * r >= b0 THEN MantissaRest(2 * r - b0, 1, b0, steps - 1)
         ELSE MantissaRest(2 * r, 0, b0, steps - 1)

\* The float a / b, a, b > 0, as what the rounding lost:
\* float(a / b) = a / b - lost / (b0 * 2^(MantissaBits - x)), lost < 0 when
\* the quotient was rounded up.
FloatDivide(a, b) ==
    LET x    == RatioExponent(a, b)
        a0   == IF x >= 0 THEN a ELSE a * Pow2(-x)
        b0   == IF x >= 0 THEN b * Pow2(x) ELSE b
        rest == MantissaRest(a0 - b0, 1, b0, MantissaBits)
        down == 2 * rest.r < b0 \/ (2 * rest.r = b0 /\ rest.lsb = 0)
    IN  [x |-> x, b0 |-> b0, lost |-> IF down THEN rest.r ELSE rest.r - b0]

\* floor(log2(k)), k >= 1.
RECURSIVE Log2(_)
Log2(k) == IF k < 2 THEN 0 ELSE 1 + Log2(k \div 2)

\* int(n * (a / b)) with a, b > 0 as Python computes it: the division is
\* rounded, then the product.  The exact product n * a / b is at least 1 / b
\* away from the next integer unless it is an integer k; the float product
\* is below k, and int() gives k - 1, exactly when the quotient was rounded
\* down and n times what was lost exceeds half the distance from k to the
\* double before it.
IntOfProduct(n, a, b) ==
    LET m    == IF n >= 0 THEN n ELSE -n
        sign == IF n >= 0 THEN 1 ELSE -1
        k    == (m * a) \div b
    IN  IF m = 0 \/ a = 0 THEN 0
        ELSE IF (m * a) % b # 0 THEN Truncate(n * a, b)
        ELSE LET q    == FloatDivide(a, b)
                 lg   == Log2(k)
                 half == IF k = Pow2(lg) THEN lg - MantissaBits - 2
                         ELSE lg - MantissaBits - 1
                 e    == q.x - MantissaBits - half
                 lhs  == m * q.lost * (IF e >= 0 THEN Pow2(e) ELSE 1)
                 rhs  == q.b0 * (IF e >= 0 THEN 1 ELSE Pow2(-e))
             IN  IF q.lost > 0 /\ lhs > rhs THEN sign * (k - 1) ELSE sign * k

\* simple_rebalance(current_roadmap, progress_data, new_weekly_hours,
\* original_weekly_hours); new_weekly_hours is {} for None.
SimpleRebalance(current_roadmap, progress, new_weekly_hours, original_weekly_hours) ==
    LET current_week == Get(progress, "current_week", 1)
        total_weeks  == Get(current_roadmap, "total_weeks", [int |-> 12]).int
        new_total    ==
            IF \E h \in new_weekly_hours : h # 0 /\ h # original_weekly_hours
            THEN LET h == CHOOSE h \in new_weekly_hours : TRUE
                     remaining_weeks == total_weeks - current_week
                 IN  current_week
                        + IntOfProduct(remaining_weeks, original_weekly_hours, h)
            ELSE total_weeks
    IN  SetKey(current_roadmap, "total_weeks", [int |-> new_total])

\* simple_rebalance is called and returns.
SimpleRebalanceReturns ==
    /\ pipeline.pc = "simple_rebalance"
    /\ pipeline' = [pc |-> "rebalanced",
                    current_roadmap |-> pipeline.current_roadmap,
                    progress |-> pipeline.progress,
                    new_weekly_hours |-> pipeline.new_weekly_hours,
                    original_weekly_hours |-> pipeline.original_weekly_hours,
                    rebalanced |-> SimpleRebalance(pipeline.current_roadmap,
                                                   pipeline.progress,
                                                   pipeline.new_weekly_hours,
                                                   pipeline.original_weekly_hours)]
    /\ UNCHANGED <<storeVars, users, progress_summary, clicks>>

---------------------------------------------------------------------------
(* ui/onboarding.py, ui/settings.py: the handlers that build a roadmap and  *)
(* persist it, one step per call they make.  A Streamlit session runs one   *)
(* handler at a time, so the documents a handler was rendered with are      *)
(* those of the store until it ends.                                        *)

NotStarted == [pc |-> "idle"]

\* No handler is between two of its calls.
AtRest == pipeline.pc \in {"idle", "failed"}

\* The visitor presses a button (st.button, st.checkbox, a form's submit):
\* the script reruns and the handler of that button is entered.
Click ==
    /\ AtRest
    /\ clicks < MaxClicks
    /\ clicks' = clicks + 1

\* "if not roadmap": None or an empty dict.
TruthyRoadmap(r) == \E b \in r : DOMAIN b # {}

\* The page of a user is rendered from the store (app.py:660-690): the
\* profile, the active roadmap and the progress snapshot are there.
Loaded(uid) ==
    /\ users[uid] # {}
    /\ ActiveDocs(roadmaps, uid) # {}
    /\ progress_summary[uid] # {}

\* user_data.get('weekly_hours', 10)
WeeklyHours(uid) == Get(CHOOSE d \in users[uid] : TRUE, "weekly_hours", 10)

\* The settings page renders: the profile form's slider (min_value=3,
\* max_value=40, value=current_hours) raises when the stored hours are
\* outside its range, and render_settings then shows an error instead of
\* the profile form and the rebalance section.
SettingsRendered(uid) ==
    /\ 3 <= WeeklyHours(uid)
    /\ WeeklyHours(uid) <= 40

\* "Save Changes" of the profile form with the slider at new_hours:
\* update_user(uid, {'weekly_hours': new_hours}) when the hours changed.
SaveProfile(uid, new_hours) ==
    /\ Click
    /\ Loaded(uid)
    /\ SettingsRendered(uid)
    /\ new_hours # WeeklyHours(uid)
    /\ users' = UpdateUser(users, uid, new_hours)
    /\ ret' = [op |-> "update_user", uid |-> uid, ok |-> TRUE, id |-> 0]
    /\ UNCHANGED <<roadmaps, tasks, clock, calls, interrupted,
                   progress_summary, pipeline>>

\* _process_onboarding up to roadmap_agent.generate(...): one generation,
\* whose result is a dict or None.
GenerateRoadmap(uid, weekly_hours, deadline_weeks, generated) ==
    /\ Click
    /\ users[uid] = {}
    /\ Len(roadmaps) < MaxVersions
    /\ pipeline' = [pc |-> "generated", path |-> "onboarding", uid |-> uid,
                    hours |-> {weekly_hours}, deadline |-> deadline_weeks,
                    generated |-> generated, roadmap |-> generated,
                    trace |-> <<"generate">>]
    /\ UNCHANGED <<storeVars, users, progress_summary>>

\* _execute_life_event_rebalance up to rebalance_agent.rebalance(...);
\* new_hours = max(3, current_hours + hours_change), None when
\* hours_change is 0.
LifeEventRebalance(uid, hours_change, generated) ==
    /\ Click
    /\ Loaded(uid)
    /\ SettingsRendered(uid)
    /\ Len(roadmaps) < MaxVersions
    /\ pipeline' = [pc |-> "generated", path |-> "life_event", uid |-> uid,
                    hours |-> IF hours_change # 0
                              THEN {Max(3, WeeklyHours(uid) + hours_change)}
                              ELSE {},
                    deadline |-> {},
                    generated |-> generated, roadmap |-> generated,
                    trace |-> <<"generate">>]
    /\ UNCHANGED <<storeVars, users, progress_summary>>

\* _execute_rebalance up to rebalance_agent.rebalance(...); the form hands
\* new_weekly_hours over as None when it is 0.  The timeline adjustment
\* goes into the prompt only.
ManualRebalance(uid, new_weekly_hours, generated) ==
    /\ Click
    /\ Loaded(uid)
    /\ SettingsRendered(uid)
    /\ Len(roadmaps) < MaxVersions
    /\ pipeline' = [pc |-> "generated", path |-> "manual", uid |-> uid,
                    hours |-> IF new_weekly_hours > 0 THEN {new_weekly_hours}
                              ELSE {},
                    deadline |-> {},
                    generated |-> generated, roadmap |-> generated,
                    trace |-> <<"generate">>]
    /\ UNCHANGED <<storeVars, users, progress_summary>>

\* "if not roadmap: roadmap = get_fallback_roadmap(...)"
FallbackRoadmap ==
    /\ pipeline.pc = "generated"
    /\ pipeline.path = "onboarding"
    /\ ~TruthyRoadmap(pipeline.roadmap)
    /\ pipeline' = [pipeline EXCEPT
          !.pc = "substituted",
          !.roadmap = {GetFallbackRoadmap(CHOOSE h \in pipeline.hours : TRUE,
                                          pipeline.deadline)},
          !.trace = Append(@, "fallback")]
    /\ UNCHANGED <<storeVars, users, progress_summary, clicks>>

\* "if not new_roadmap: new_roadmap = simple_rebalance(...)"
FallbackRebalance ==
    /\ pipeline.pc = "generated"
    /\ pipeline.path \in {"life_event", "manual"}
    /\ ~TruthyRoadmap(pipeline.roadmap)
    /\ \E i \in ActiveDocs(roadmaps, pipeline.uid) :
       \E progress \in progress_summary[pipeline.uid] :
          pipeline' = [pipeline EXCEPT
             !.pc = "substituted",
             !.roadmap = {SimpleRebalance(GetActiveRoadmap(roadmaps, i), progress,
                                          pipeline.hours,
                                          WeeklyHours(pipeline.uid))},
             !.trace = Append(@, "fallback")]
    /\ UNCHANGED <<storeVars, users, progress_summary, clicks>>

\* Fault injection for SanitizeStep: the handler goes on to the continuity
\* pass without sanitize_roadmap_output.
SanitizeStepSkipped ==
    /\ pipeline.pc \in {"generated", "substituted"}
    /\ TruthyRoadmap(pipeline.roadmap)
    /\ pipeline' = [pipeline EXCEPT
          !.pc = "sanitized",
          !.roadmap = {SetDefault(b, "phases", <<>>) : b \in pipeline.roadmap}]
    /\ UNCHANGED <<storeVars, users, progress_summary, clicks>>

\* roadmap = sanitize_roadmap_output(roadmap); an exception ends the handler.
SanitizeStep ==
    /\ pipeline.pc \in {"generated", "substituted"}
    /\ TruthyRoadmap(pipeline.roadmap)
    /\ LET out == SanitizeRoadmapOutput(CHOOSE b \in pipeline.roadmap : TRUE)
       IN  pipeline' = IF Raised(out)
                       THEN [pipeline EXCEPT !.pc = "failed", !.roadmap = {},
                                             !.trace = Append(@, "sanitize")]
                       ELSE [pipeline EXCEPT !.pc = "sanitized",
                                             !.roadmap = {out},
                                             !.trace = Append(@, "sanitize")]
    /\ UNCHANGED <<storeVars, users, progress_summary, clicks>>

\* roadmap['phases'] = ensure_week_continuity(roadmap['phases'])
ContinuityStep ==
    /\ pipeline.pc = "sanitized"
    /\ LET r == CHOOSE b \in pipeline.roadmap : TRUE
       IN  pipeline' = [pipeline EXCEPT
              !.pc = "continuous",
              !.roadmap = {SetKey(r, "phases", EnsureWeekContinuity(r.phases))},
              !.trace = Append(@, "continuity")]
    /\ UNCHANGED <<storeVars, users, progress_summary, clicks>>

\* _process_onboarding, "Saving your profile and roadmap": create_user,
\* create_roadmap({'uid', **roadmap, 'current_week': 1, 'is_active': True}),
\* update_progress.
PersistOnboarding ==
    /\ pipeline.pc = "continuous"
    /\ pipeline.path = "onboarding"
    /\ LET uid == pipeline.uid
           r   == CHOOSE b \in pipeline.roadmap : TRUE
           d   == SetKey(SetKey(SetDefault(r, "uid", uid),
                                "current_week", 1), "is_active", TRUE)
           out == CreateRoadmapOutcome(roadmaps, tasks, d, clock)
       IN  /\ users' = CreateUser(users, uid,
                          [uid |-> uid,
                           weekly_hours |-> CHOOSE h \in pipeline.hours : TRUE,
                           onboarding_completed |-> TRUE])
           /\ roadmaps' = out.roadmaps
           /\ tasks' = out.tasks
           /\ clock' = clock + 1
           /\ UpdateProgress(uid, out.roadmaps, out.tasks)
           /\ pipeline' = NotStarted
    /\ UNCHANGED <<calls, interrupted, clicks>>

\* The rebalance handlers from roadmap_data_to_save on: create_roadmap of
\* {'uid', **new_roadmap, 'current_week': progress_data.get('current_week',
\* 1), 'is_active': True}, then update_user when there are new hours (the
\* manual path: only if create_roadmap returned an id).
PersistRebalance ==
    /\ pipeline.pc = "continuous"
    /\ pipeline.path \in {"life_event", "manual"}
    /\ \E progress \in progress_summary[pipeline.uid] :
       LET uid == pipeline.uid
           r   == CHOOSE b \in pipeline.roadmap : TRUE
           d   == SetKey(SetKey(SetDefault(r, "uid", uid),
                                "current_week", Get(progress, "current_week", 1)),
                         "is_active", TRUE)
           out == CreateRoadmapOutcome(roadmaps, tasks, d, clock)
           new == \E h \in pipeline.hours : h # 0
           upd == new /\ (pipeline.path = "life_event" \/ out.id # {})
       IN  /\ roadmaps' = out.roadmaps
           /\ tasks' = out.tasks
           /\ clock' = clock + 1
           /\ users' = IF upd
                       THEN UpdateUser(users, uid, CHOOSE h \in pipeline.hours : TRUE)
                       ELSE users
           /\ ret' = IF upd
                     THEN [op |-> "update_user", uid |-> uid,
                           ok |-> TRUE, id |-> 0]
                     ELSE [op |-> "create_roadmap", uid |-> uid,
                           ok |-> out.id # {},
                           id |-> IF out.id = {} THEN 0 ELSE Len(out.roadmaps)]
           /\ pipeline' = NotStarted
    /\ UNCHANGED <<calls, interrupted, progress_summary, clicks>>

---------------------------------------------------------------------------
(* ui/dashboard.py, ui/roadmap.py, ui/progress.py: the pages of a user who  *)
(* has a roadmap                                                            *)

\* The checkbox of a task of the current week is flipped (dashboard.py:
\* 316-343, roadmap.py:145-165): new_status is 'completed' when it is now
\* checked and 'pending' when it is not; update_task_status, update_progress.
ToggleTask(uid, t) ==
    /\ Click
    /\ Loaded(uid)
    /\ \E i \in ActiveDocs(roadmaps, uid) :
          t \in GetTasksForWeek(roadmaps, tasks, uid, roadmaps[i].current_week)
    /\ LET new_status == IF tasks[t].status = "completed" THEN "pending"
                         ELSE "completed"
       IN  /\ tasks' = UpdateTaskStatus(tasks, t, new_status, clock)
           /\ UpdateProgress(uid, roadmaps, tasks')
    /\ UNCHANGED <<roadmaps, clock, calls, interrupted, users, pipeline>>

\* "Previous Week" of the roadmap page (roadmap.py:214-219).
PreviousWeek(uid) ==
    /\ Click
    /\ Loaded(uid)
    /\ \E i \in ActiveDocs(roadmaps, uid) :
          /\ roadmaps[i].current_week > 1
          /\ UpdateCurrentWeek(uid, roadmaps[i].current_week - 1)
    /\ UNCHANGED <<users, progress_summary, pipeline>>

\* Fault injection for NextWeek: the button is there in the last week too.
NextWeekUnguarded(uid) ==
    /\ Click
    /\ Loaded(uid)
    /\ \E i \in ActiveDocs(roadmaps, uid) :
          UpdateCurrentWeek(uid, roadmaps[i].current_week + 1)
    /\ UNCHANGED <<users, progress_summary, pipeline>>

\* "Next Week" of the roadmap page (roadmap.py:223-228).
NextWeek(uid) ==
    /\ Click
    /\ Loaded(uid)
    /\ \E i \in ActiveDocs(roadmaps, uid) :
          /\ roadmaps[i].current_week < roadmaps[i].total_weeks
          /\ UpdateCurrentWeek(uid, roadmaps[i].current_week + 1)
    /\ UNCHANGED <<users, progress_summary, pipeline>>

\* advance_week of the dashboard: update_current_week, then update_progress
\* when it succeeded; in the last week (or past it) nothing is written and
\* False is returned.
AdvanceWeek(uid) ==
    /\ Click
    /\ Loaded(uid)
    /\ \E i \in ActiveDocs(roadmaps, uid) :
          IF roadmaps[i].current_week < roadmaps[i].total_weeks
          THEN /\ roadmaps' = [roadmaps EXCEPT
                                  ![i].current_week = roadmaps[i].current_week + 1]
               /\ UpdateProgress(uid, roadmaps', tasks)
          ELSE /\ roadmaps' = roadmaps
               /\ progress_summary' = progress_summary
               /\ ret' = [op |-> "advance_week", uid |-> uid,
                          ok |-> FALSE, id |-> 0]
    /\ UNCHANGED <<tasks, clock, calls, interrupted, users, pipeline>>

\* The progress page is opened: update_progress (progress.py:27).
ViewProgress(uid) ==
    /\ Click
    /\ Loaded(uid)
    /\ UpdateProgress(uid, roadmaps, tasks)
    /\ UNCHANGED <<roadmaps, tasks, clock, calls, interrupted, users, pipeline>>

---------------------------------------------------------------------------
(* What the callers hand to create_roadmap *)

Week(n, ts) == [week_number |-> n, focus_skill |-> "General Learning",
                tasks |-> ts, milestone |-> "Complete weekly tasks",
                success_metric |-> "All tasks completed"]

\* Bodies after sanitation: total_weeks and the phases.
StoredBodies ==
    { [total_weeks |-> [int |-> 2],
       phases |-> << [phase_name |-> "Foundation",
                      weeks |-> << Week(1, <<"study", "practice">>),
                                   Week(2, <<"project">>) >>] >>],
      [total_weeks |-> [int |-> 3],
       phases |-> << [phase_name |-> "Foundation",
                      weeks |-> << Week(1, <<"study">>) >>],
                     [phase_name |-> "Building",
                      weeks |-> << Week(2, <<"project">>), Week(3, <<>>) >>] >>] }

\* roadmap_data as _process_onboarding builds it: {'uid', **roadmap,
\* 'current_week': 1, 'is_active': True}.
FreshDataFor(uid) ==
    { [uid |-> uid, total_weeks |-> b.total_weeks, phases |-> b.phases,
       current_week |-> 1, is_active |-> TRUE] : b \in StoredBodies }

\* roadmap_data as the rebalance paths build it when simple_rebalance made
\* the body: a copy of the active document, which carries that document's
\* roadmap_version along, with the week pointer carried over.
CopiedDataFor(uid) ==
    { SetKey(SetKey(f, "roadmap_version", roadmaps[i].roadmap_version),
             "current_week", roadmaps[i].current_week) :
          f \in FreshDataFor(uid), i \in ActiveDocs(roadmaps, uid) }

RoadmapDataFor(uid) == FreshDataFor(uid) \cup CopiedDataFor(uid)

---------------------------------------------------------------------------
(* Specifications of the store *)

SanIdle ==
    /\ body = <<>>
    /\ sanitized = <<>>
    /\ passes = <<>>

EvalIdle ==
    /\ engine = <<>>
    /\ progress_data = <<>>
    /\ user_data = <<>>
    /\ roadmap_data = <<>>
    /\ previous_user_data = {}
    /\ recommendation = NotEvaluated

StoreInit ==
    /\ roadmaps = <<>>
    /\ tasks = <<>>
    /\ clock = 1
    /\ ret = [op |-> "none", uid |-> "none", ok |-> TRUE, id |-> 0]
    /\ calls = [s \in Sessions |-> Idle]
    /\ interrupted = {}

AppIdle ==
    /\ users = [u \in Uids |-> {}]
    /\ progress_summary = [u \in Uids |-> {}]
    /\ pipeline = NotStarted
    /\ clicks = 0

Init == StoreInit /\ SanIdle /\ EvalIdle /\ AppIdle

Next ==
    \/ \E uid \in Uids : \E d \in RoadmapDataFor(uid) :
          CreateRoadmap(d) /\ UNCHANGED <<sanVars, evalVars, appVars>>
    \/ \E uid \in Uids, week \in 1..MaxWeek :
          UpdateCurrentWeek(uid, week) /\ UNCHANGED <<sanVars, evalVars, appVars>>

Spec == Init /\ [][Next]_vars

NextSteps ==
    \/ \E s \in Sessions, uid \in Uids : \E d \in FreshDataFor(uid) :
          BeginCreate(s, d) /\ UNCHANGED <<sanVars, evalVars, appVars>>
    \/ \E s \in Sessions : DeactivateQuery(s) /\ UNCHANGED <<sanVars, evalVars, appVars>>
    \/ \E s \in Sessions : DeactivateUpdate(s) /\ UNCHANGED <<sanVars, evalVars, appVars>>
    \/ \E s \in Sessions : AddRoadmap(s) /\ UNCHANGED <<sanVars, evalVars, appVars>>
    \/ \E s \in Sessions : CommitTasks(s) /\ UNCHANGED <<sanVars, evalVars, appVars>>
    \/ \E s \in Sessions : Crash(s) /\ UNCHANGED <<sanVars, evalVars, appVars>>

SpecSteps == Init /\ [][NextSteps]_vars

---------------------------------------------------------------------------
(* Specification of the application: one visitor who onboards, works       *)
(* through the weeks and rebalances                                         *)

Visitors == {"u1"}

\* What a generation returns when it succeeds, and when it may also fail.
Generated == {{b} : b \in StoredBodies}
MaybeGenerated == {{}} \cup Generated

\* Onboarding: the hours slider (3..40) and TIMELINE_OPTIONS.
OnboardingHours == {10}
DeadlineWeeks == {{}}

\* LIFE_EVENTS' hours_change values, and the manual form's hours (0..40).
HoursChanges == {-5, 0, 5}
ManualHours == {0, 2, 20}

\* The profile form's hours slider (3..40).
ProfileHours == {3, 40}

NextApp ==
    \/ \E uid \in Visitors, h \in OnboardingHours, dl \in DeadlineWeeks,
          g \in Generated :
          GenerateRoadmap(uid, h, dl, g) /\ UNCHANGED <<sanVars, evalVars>>
    \/ \E uid \in Visitors, c \in HoursChanges, g \in MaybeGenerated :
          LifeEventRebalance(uid, c, g) /\ UNCHANGED <<sanVars, evalVars>>
    \/ \E uid \in Visitors, h \in ManualHours, g \in MaybeGenerated :
          ManualRebalance(uid, h, g) /\ UNCHANGED <<sanVars, evalVars>>
    \/ FallbackRebalance /\ UNCHANGED <<sanVars, evalVars>>
    \/ SanitizeStep /\ UNCHANGED <<sanVars, evalVars>>
    \/ ContinuityStep /\ UNCHANGED <<sanVars, evalVars>>
    \/ PersistOnboarding /\ UNCHANGED <<sanVars, evalVars>>
    \/ PersistRebalance /\ UNCHANGED <<sanVars, evalVars>>
    \/ \E uid \in Visitors : \E t \in DOMAIN tasks :
          ToggleTask(uid, t) /\ UNCHANGED <<sanVars, evalVars>>
    \/ \E uid \in Visitors : PreviousWeek(uid) /\ UNCHANGED <<sanVars, evalVars>>
    \/ \E uid \in Visitors : NextWeek(uid) /\ UNCHANGED <<sanVars, evalVars>>
    \/ \E uid \in Visitors : AdvanceWeek(uid) /\ UNCHANGED <<sanVars, evalVars>>
    \/ \E uid \in Visitors : ViewProgress(uid) /\ UNCHANGED <<sanVars, evalVars>>
    \/ \E uid \in Visitors, h \in ProfileHours :
          SaveProfile(uid, h) /\ UNCHANGED <<sanVars, evalVars>>

SpecApp == Init /\ [][NextApp]_vars

---------------------------------------------------------------------------
(* Specification of the handlers that persist a roadmap, over what the     *)
(* generation may return: nothing, an empty object, bodies with fields      *)
(* missing and with total_weeks in the forms JSON allows                    *)

RawBodies ==
    { [total_weeks |-> [str |-> <<"2">>],
       phases |-> << [weeks |-> << [week_number |-> 5, tasks |-> <<"study">>],
                                   [tasks |-> <<"project">>] >>] >>],
      [total_weeks |-> [float |-> 25],
       phases |-> << [phase_name |-> "Foundation",
                      weeks |-> << [week_number |-> 1, focus_skill |-> "SQL"] >>],
                     [phase_name |-> "Building"] >>],
      [total_weeks |-> [str |-> <<"t", "w", "o">>], phases |-> <<>>],
      [phases |-> << [phase_name |-> "Foundation",
                      weeks |-> << [week_number |-> 2, tasks |-> <<"study">>] >>] >>] }

\* None, {} and the bodies.
AnyGenerated == {{}, {<<>>}} \cup {{b} : b \in RawBodies}

\* The hours slider and TIMELINE_OPTIONS at onboarding.
FallbackHours == {10, 30}
FallbackDeadlines == {{}, {12}}

NextPersist ==
    \/ \E uid \in Visitors, h \in FallbackHours, dl \in FallbackDeadlines,
          g \in AnyGenerated :
          GenerateRoadmap(uid, h, dl, g) /\ UNCHANGED <<sanVars, evalVars>>
    \/ \E uid \in Visitors, c \in HoursChanges, g \in AnyGenerated :
          LifeEventRebalance(uid, c, g) /\ UNCHANGED <<sanVars, evalVars>>
    \/ \E uid \in Visitors, h \in ManualHours, g \in AnyGenerated :
          ManualRebalance(uid, h, g) /\ UNCHANGED <<sanVars, evalVars>>
    \/ FallbackRoadmap /\ UNCHANGED <<sanVars, evalVars>>
    \/ FallbackRebalance /\ UNCHANGED <<sanVars, evalVars>>
    \/ SanitizeStep /\ UNCHANGED <<sanVars, evalVars>>
    \/ ContinuityStep /\ UNCHANGED <<sanVars, evalVars>>
    \/ PersistOnboarding /\ UNCHANGED <<sanVars, evalVars>>
    \/ PersistRebalance /\ UNCHANGED <<sanVars, evalVars>>

SpecPersist == Init /\ [][NextPersist]_vars

-------------------------------------------------------------------------------------
(* The store with a backend whose calls may raise *)

\* The profiles the users collection starts with.
Registered ==
    [u \in Uids |-> {[uid |-> u, weekly_hours |-> 10,
                      onboarding_completed |-> TRUE]}]

InitOutage ==
    /\ StoreInit
    /\ SanIdle
    /\ EvalIdle
    /\ users = Registered
    /\ progress_summary = [u \in Uids |-> {}]
    /\ pipeline = NotStarted
    /\ clicks = 0

\* Every call is made for a button the visitor pressed.
OutageFrame ==
    /\ Click
    /\ UNCHANGED <<sanVars, evalVars, progress_summary, pipeline>>

NextOutage ==
    \/ \E uid \in Visitors, failing \in SUBSET CreateCalls :
          \E d \in FreshDataFor(uid) :
             CreateRoadmapOrFail(d, failing) /\ OutageFrame
    \/ \E uid \in Visitors, week \in 1..MaxWeek, failing \in SUBSET PointerCalls :
          UpdateCurrentWeekOrFail(uid, week, failing) /\ OutageFrame
    \/ \E t \in DOMAIN tasks, status \in {"pending", "completed"},
          failing \in SUBSET {"update"} :
          UpdateTaskStatusOrFail(t, status, failing) /\ OutageFrame
    \/ \E uid \in Visitors, h \in ProfileHours, failing \in SUBSET {"update"} :
          UpdateUserOrFail(uid, h, failing) /\ OutageFrame

SpecOutage == InitOutage /\ [][NextOutage]_vars

---------------------------------------------------------------------------
(* simple_rebalance on its own *)

\* The smallest weekly_hours the sliders store.
MinHours == 3

InitRebalance ==
    /\ StoreInit
    /\ SanIdle
    /\ EvalIdle
    /\ users = [u \in Uids |-> {}]
    /\ progress_summary = [u \in Uids |-> {}]
    /\ clicks = 0
    /\ \E tw \in 1..MaxPlanWeeks, cw \in 1..MaxPlanWeeks,
          o \in MinHours..MaxNewHours,
          new \in {{}} \cup {{h} : h \in 1..MaxNewHours} :
          /\ cw <= tw
          /\ pipeline = [pc |-> "simple_rebalance",
                         current_roadmap |-> [total_weeks |-> [int |-> tw],
                                              phases |-> <<>>],
                         progress |-> [current_week |-> cw],
                         new_weekly_hours |-> new,
                         original_weekly_hours |-> o]

NextRebalance == SimpleRebalanceReturns /\ UNCHANGED <<sanVars, evalVars>>

SpecRebalance == InitRebalance /\ [][NextRebalance]_vars

-----------------------------------------------------------------
(* Claims about the store *)

\* C1: in every sequence of create_roadmap calls, each run to completion,
\* right after a call for a user exactly one of that user's versions is
\* active, and it is the version that call created.
C1_SingleActiveAfterCreate ==
    ret.op = "create_roadmap" =>
        /\ ret.ok
        /\ ActiveDocs(roadmaps, ret.uid) = {ret.id}
        /\ ret.id = Len(roadmaps)

\* C1 witness: a call has just replaced an earlier active version of the
\* same user while the other user has a version of her own.
C1_Witness ==
    /\ ret.op = "create_roadmap"
    /\ Cardinality(UserDocs(roadmaps, ret.uid)) >= 2
    /\ \E u \in Uids \ {ret.uid} : ActiveDocs(roadmaps, u) # {}

\* What makes a document the version it is.
VersionOf(doc) == <<doc.uid, doc.roadmap_version, doc.total_weeks, doc.phases>>

\* C2: the history is append-only.  No step removes a document or turns it
\* into another version, a create_roadmap call adds exactly one document,
\* and the versions it replaces stay in the collection, inactive.
C2_AppendOnlyHistory ==
    [][ /\ Len(roadmaps') >= Len(roadmaps)
        /\ \A i \in DOMAIN roadmaps : VersionOf(roadmaps'[i]) = VersionOf(roadmaps[i])
        /\ (ret'.op = "create_roadmap" /\ ret' # ret) =>
              /\ Len(roadmaps') = Len(roadmaps) + 1
              /\ \A i \in UserDocs(roadmaps, ret'.uid) :
                    i \in DOMAIN roadmaps' /\ ~roadmaps'[i].is_active
      ]_vars

\* C2 witness: a user's history holds a replaced, inactive version next to
\* the active one.
C2_Witness ==
    \E u \in Uids : \E i, j \in UserDocs(roadmaps, u) :
        /\ i < j
        /\ ~roadmaps[i].is_active
        /\ roadmaps[j].is_active
        /\ roadmaps[i].phases # roadmaps[j].phases

\* C3: an interrupted create_roadmap can leave a user without an active
\* version, an overlapped one with several; and only such calls do: with
\* no call of hers in progress, a user who has versions and is not left
\* with exactly one active version had a create_roadmap cut short or
\* overlapped.
C3_BadOnlyWhenInterrupted ==
    \A u \in Uids :
        ( /\ InFlight(u) = {}
          /\ UserDocs(roadmaps, u) # {}
          /\ Cardinality(ActiveDocs(roadmaps, u)) # 1 )
        => u \in interrupted

\* C3 witness: with every session idle, one user is left with no active
\* version and another one with two.
C3_Witness ==
    /\ \A s \in Sessions : calls[s].pc = "idle"
    /\ \E u \in Uids : UserDocs(roadmaps, u) # {} /\ ActiveDocs(roadmaps, u) = {}
    /\ \E u \in Uids : Cardinality(ActiveDocs(roadmaps, u)) >= 2

---------------------------------------------------------------------------
(* Generator output handed to the sanitation passes *)

\* A week with every field, a week with some, a week with none.
WeekShapes ==
    { [week_number |-> 5, focus_skill |-> "Python", tasks |-> <<"study", "practice">>,
       milestone |-> "First script", success_metric |-> "Script runs"],
      [week_number |-> 1, tasks |-> <<"project">>],
      <<>> }

\* Lists of at most n weeks.
WeekLists(n) == UNION { [1..k -> WeekShapes] : k \in 0..n }

\* Lists of at most p phases with at most n weeks in all.  A phase is an
\* empty object or has its name and its list of weeks.
RECURSIVE PhaseLists(_, _)
PhaseLists(p, n) ==
    IF p = 0 THEN { <<>> }
    ELSE { <<>> }
         \cup { << <<>> >> \o rest : rest \in PhaseLists(p - 1, n) }
         \cup UNION { { << [phase_name |-> "Foundation", weeks |-> ws] >> \o rest :
                           rest \in PhaseLists(p - 1, n - Len(ws)) } :
                      ws \in WeekLists(n) }

\* Phases with one of the two keys only.
PartialPhases ==
    << [phase_name |-> "Intro"],
       [weeks |-> << [week_number |-> 5], <<>> >>],
       [weeks |-> << [focus_skill |-> "Python"] >>] >>

\* total_weeks as a model may write it: 12, 12.5, -2.5, "12", "twelve".
TotalWeeksValues ==
    { [int |-> 12], [float |-> 125], [float |-> -25],
      [str |-> <<"1", "2">>], [str |-> <<"t", "w", "e", "l", "v", "e">>] }

GeneratedBodies ==
    { [total_weeks |-> [float |-> 35], phases |-> ps] :
          ps \in PhaseLists(MaxPhases, MaxBodyWeeks) }
    \cup { [total_weeks |-> v, phases |-> PartialPhases] : v \in TotalWeeksValues }
    \cup { [total_weeks |-> v] : v \in TotalWeeksValues }
    \cup { [phases |-> PartialPhases], <<>> }

InitSanitize ==
    /\ StoreInit
    /\ AppIdle
    /\ EvalIdle
    /\ body \in GeneratedBodies
    /\ sanitized = <<>>
    /\ passes = <<>>

NextSanitize ==
    \/ Sanitize /\ UNCHANGED <<storeVars, evalVars, appVars>>
    \/ EnsureContinuity /\ UNCHANGED <<storeVars, evalVars, appVars>>

SpecSanitize == InitSanitize /\ [][NextSanitize]_vars

---------------------------------------------------------------------------
(* Claims about sanitation *)

Without(d, k) == [x \in DOMAIN d \ {k} |-> d[x]]

\* The weeks of a list of phases, in phase order and then in list order.
RECURSIVE FlatWeeks(_)
FlatWeeks(phases) ==
    IF phases = <<>> THEN <<>>
    ELSE Get(Head(phases), "weeks", <<>>) \o FlatWeeks(Tail(phases))

\* The body pass k was applied to.
BodyBefore(k) == IF k = 1 THEN body ELSE sanitized[k - 1]

\* C4: after ensure_week_continuity the week numbers, read in phase order and
\* then in list order, are 1, 2, ..., N with N the number of weeks, whatever
\* the numbers were; the phases, their order, the weeks of every phase, the
\* order of the weeks and every other field are as they were.
C4_ContinuousWeekNumbers ==
    \A k \in DOMAIN passes :
        passes[k] = "continuity" =>
            LET before == BodyBefore(k).phases
                after  == sanitized[k].phases
                bw     == FlatWeeks(before)
                aw     == FlatWeeks(after)
            IN  /\ Without(sanitized[k], "phases") = Without(BodyBefore(k), "phases")
                /\ Len(after) = Len(before)
                /\ \A i \in DOMAIN after :
                      /\ DOMAIN after[i] = DOMAIN before[i]
                      /\ Without(after[i], "weeks") = Without(before[i], "weeks")
                      /\ Len(Get(after[i], "weeks", <<>>))
                            = Len(Get(before[i], "weeks", <<>>))
                /\ Len(aw) = Len(bw)
                /\ \A n \in DOMAIN aw :
                      /\ aw[n].week_number = n
                      /\ Without(aw[n], "week_number") = Without(bw[n], "week_number")

\* C4 witness: the pass has renumbered phases whose weeks were numbered
\* [5, 5] and [1] to 1, 2, 3.
C4_Witness ==
    /\ passes = <<"continuity">>
    /\ Len(body.phases) = 2
    /\ \A i \in {1, 2} : "weeks" \in DOMAIN body.phases[i]
    /\ [n \in DOMAIN FlatWeeks(body.phases) |->
            Get(FlatWeeks(body.phases)[n], "week_number", 0)] = <<5, 5, 1>>
    /\ [n \in DOMAIN FlatWeeks(sanitized[1].phases) |->
            FlatWeeks(sanitized[1].phases)[n].week_number] = <<1, 2, 3>>

\* C5: sanitize_roadmap_output followed by ensure_week_continuity is
\* idempotent: applying the pair to its own outcome changes nothing.
C5_SanitizeIdempotent ==
    \A k \in DOMAIN passes :
        ( /\ k + 3 <= Len(passes)
          /\ passes[k] = "sanitize"
          /\ passes[k + 1] = "continuity" )
        => sanitized[k + 3] = sanitized[k + 1]

\* C5 witness: the pair has been applied twice to a body in which the first
\* application filled in defaults, converted total_weeks and renumbered weeks.
C5_Witness ==
    /\ Len(passes) >= 4
    /\ passes[1] = "sanitize"
    /\ sanitized[1] # body
    /\ sanitized[2] # sanitized[1]
    /\ Len(FlatWeeks(sanitized[4].phases)) = MaxBodyWeeks

---------------------------------------------------------------------------
(* What the rule engine is given *)

MaxTasks      == 4    \* tasks of a progress summary handed to evaluate
MaxTotalWeeks == 2    \* total_weeks of a roadmap handed to evaluate
MaxTotalTasks == 20   \* tasks of a progress summary handed to _check_missed_tasks
MaxAheadWeeks == 12   \* weeks of a roadmap handed to _check_ahead_of_schedule
MaxCompletion == 100  \* completion percentage handed to _check_ahead_of_schedule
MaxHours      == 12   \* weekly hours handed to _check_hours_change

\* The singleton RuleEngine() and an engine with both thresholds given.
Engines == { RuleEngineInit({}, {}), RuleEngineInit({40}, {10}), RuleEngineInit({0}, {}) }

Percentages == {0, 20, 60, 100}

\* The summary update_progress writes, or one without the keys evaluate reads.
ProgressSummaries ==
    { [total_tasks_count |-> t, missed_tasks_count |-> m, completion_percentage |-> c] :
          t \in 0..MaxTasks, m \in 0..MaxTasks, c \in Percentages }
    \cup { <<>> }

EvaluatedRoadmaps ==
    { [current_week |-> w, total_weeks |-> n] : w \in 1..MaxWeek, n \in 0..MaxTotalWeeks }
    \cup { <<>> }

CurrentUser == [weekly_hours |-> 10, deadline_type |-> "6_months", situation |-> "student"]

\* previous_user_data: None, an empty snapshot, the profile before an edit of
\* some of its fields, a snapshot with the hours only.
PreviousUsers ==
    { {}, { <<>> }, { [weekly_hours |-> 8] } }
    \cup { { [weekly_hours |-> h, deadline_type |-> d, situation |-> s] } :
              h \in {0, 8, 9}, d \in {"3_months", "6_months"},
              s \in {"student", "working"} }

InitEval ==
    /\ StoreInit
    /\ AppIdle
    /\ SanIdle
    /\ engine \in Engines
    /\ progress_data \in ProgressSummaries
    /\ user_data = CurrentUser
    /\ roadmap_data \in EvaluatedRoadmaps
    /\ previous_user_data \in PreviousUsers
    /\ recommendation = NotEvaluated

NextEval ==
    \/ Evaluate /\ UNCHANGED <<storeVars, sanVars, appVars>>
    \/ EvaluateAgain /\ UNCHANGED <<storeVars, sanVars, appVars>>

SpecEval == InitEval /\ [][NextEval]_vars

InitMissed ==
    /\ StoreInit
    /\ AppIdle
    /\ SanIdle
    /\ engine = RuleEngineInit({}, {})
    /\ \E t \in 1..MaxTotalTasks, m \in 0..MaxTotalTasks :
          /\ m <= t
          /\ progress_data = [total_tasks_count |-> t, missed_tasks_count |-> m]
    /\ user_data = CurrentUser
    /\ roadmap_data \in EvaluatedRoadmaps
    /\ previous_user_data = {}
    /\ recommendation = NotEvaluated

NextMissed == CheckMissed /\ UNCHANGED <<storeVars, sanVars, appVars>>

SpecMissed == InitMissed /\ [][NextMissed]_vars

InitAhead ==
    /\ StoreInit
    /\ AppIdle
    /\ SanIdle
    /\ engine = RuleEngineInit({}, {})
    /\ progress_data \in { [completion_percentage |-> c] : c \in 0..MaxCompletion }
    /\ user_data = CurrentUser
    /\ roadmap_data \in { [current_week |-> w, total_weeks |-> n] :
                             w \in 1..MaxAheadWeeks, n \in 1..MaxAheadWeeks }
    /\ previous_user_data = {}
    /\ recommendation = NotEvaluated

NextAhead == CheckAhead /\ UNCHANGED <<storeVars, sanVars, appVars>>

SpecAhead == InitAhead /\ [][NextAhead]_vars

InitHours ==
    /\ StoreInit
    /\ AppIdle
    /\ SanIdle
    /\ engine = RuleEngineInit({}, {})
    /\ progress_data = <<>>
    /\ user_data \in { SetKey(CurrentUser, "weekly_hours", h) : h \in 0..MaxHours }
    /\ roadmap_data = <<>>
    /\ previous_user_data \in { { SetKey(CurrentUser, "weekly_hours", h) } :
                                   h \in 0..MaxHours }
    /\ recommendation = NotEvaluated

NextHours == CheckHours /\ UNCHANGED <<storeVars, sanVars, appVars>>

SpecHours == InitHours /\ [][NextHours]_vars

---------------------------------------------------------------------------
(* Claims about the rule engine *)

Evaluated == recommendation # NotEvaluated

\* The checks evaluate runs on its inputs, by trigger, in the order it runs them.
EvaluationOrder ==
    << "missed_tasks", "ahead_of_schedule" >>
    \o IF TruthyDict(previous_user_data)
       THEN << "hours_changed", "deadline_changed", "situation_changed" >>
       ELSE << >>

CheckResult(trigger) ==
    LET previous_user == CHOOSE d \in previous_user_data : TRUE
    IN  CASE trigger = "missed_tasks" ->
                 CheckMissedTasks(engine, progress_data, roadmap_data)
          [] trigger = "ahead_of_schedule" ->
                 CheckAheadOfSchedule(engine, progress_data, roadmap_data)
          [] trigger = "hours_changed" ->
                 CheckHoursChange(engine, user_data, previous_user)
          [] trigger = "deadline_changed" ->
                 CheckDeadlineChange(engine, user_data, previous_user)
          [] trigger = "situation_changed" ->
                 CheckSituationChange(engine, user_data, previous_user)

\* The positions in EvaluationOrder of the checks that fire.
Fired == { n \in DOMAIN EvaluationOrder : CheckResult(EvaluationOrder[n]) # None }

SeverityRank(severity) ==
    CASE severity = "high" -> 0 [] severity = "medium" -> 1 [] severity = "low" -> 2

\* C6: when several checks fire in one evaluate call, the recommendation
\* returned is a candidate of the lowest severity rank (high 0, medium 1,
\* low 2) and, among the candidates of that rank, the one that is first in
\* the order missed tasks, ahead of schedule, hours, deadline, situation.
C6_SeverityThenEvaluationOrder ==
    (Evaluated /\ Cardinality(Fired) >= 2) =>
        \E n \in Fired :
            /\ recommendation = CheckResult(EvaluationOrder[n])
            /\ \A k \in Fired \ {n} :
                  LET mine   == SeverityRank(recommendation.severity)
                      theirs == SeverityRank(CheckResult(EvaluationOrder[k]).severity)
                  IN  mine < theirs \/ (mine = theirs /\ n < k)

\* C6 witness: the hours check and the situation check fire with the same
\* severity, the ahead-of-schedule check fires with a lower one, and the
\* hours recommendation is returned.
C6_Witness ==
    /\ Evaluated
    /\ TruthyDict(previous_user_data)
    /\ Fired = {2, 3, 5}
    /\ recommendation.trigger = "hours_changed"

\* C7: whenever the missed-tasks check and the ahead-of-schedule check both
\* fire and no previous profile snapshot is supplied, evaluate returns the
\* missed-tasks recommendation.
C7_MissedBeatsAhead ==
    ( /\ Evaluated
      /\ ~TruthyDict(previous_user_data)
      /\ CheckMissedTasks(engine, progress_data, roadmap_data) # None
      /\ CheckAheadOfSchedule(engine, progress_data, roadmap_data) # None )
    => recommendation.trigger = "missed_tasks"

\* C7 witness: evaluate has run without a snapshot on a summary with a third
\* or more of the tasks missed and a completion far ahead of the schedule.
C7_Witness ==
    /\ Evaluated
    /\ previous_user_data = {}
    /\ Fired = {1, 2}
    /\ recommendation.severity = "medium"

\* C8: evaluate with total_tasks_count = 0 never raises and never returns a
\* recommendation with the trigger MISSED_TASKS, whatever missed_tasks_count is.
C8_ZeroTasksSafe ==
    (Evaluated /\ Get(progress_data, "total_tasks_count", 0) = 0) =>
        /\ ~Raised(recommendation)
        /\ recommendation.trigger # "missed_tasks"

\* C8 witness: evaluate has returned for a summary of no tasks that counts
\* missed tasks.
C8_Witness ==
    /\ Evaluated
    /\ "total_tasks_count" \in DOMAIN progress_data
    /\ progress_data.total_tasks_count = 0
    /\ progress_data.missed_tasks_count = MaxTasks
    /\ recommendation.should_rebalance

\* C9: for a roadmap with total_weeks = 0 the ahead-of-schedule check is
\* skipped: evaluate never returns the trigger AHEAD_OF_SCHEDULE, whatever the
\* completion percentage is.
C9_AheadSkippedWithoutWeeks ==
    ( /\ Evaluated
      /\ "total_weeks" \in DOMAIN roadmap_data
      /\ roadmap_data.total_weeks = 0 )
    => recommendation.trigger # "ahead_of_schedule"

\* C10: with total_tasks_count > 0 and the default thresholds, the
\* missed-tasks check fires exactly when missed * 100 >= 30 * total, with
\* severity high exactly when missed * 100 >= 50 * total, medium otherwise.
C10_MissedThresholds ==
    Evaluated =>
        LET total  == progress_data.total_tasks_count
            missed == progress_data.missed_tasks_count
        IN  /\ recommendation # None <=> missed * 100 >= 30 * total
            /\ recommendation # None =>
                  /\ recommendation.trigger = "missed_tasks"
                  /\ recommendation.should_rebalance
                  /\ recommendation.severity = "high" <=> missed * 100 >= 50 * total
                  /\ recommendation.severity = "medium" <=> missed * 100 < 50 * total

\* C10 witness: the check has run on 6 missed tasks of 20, exactly 30 percent,
\* and fired with severity medium.
C10_Witness ==
    /\ Evaluated
    /\ progress_data.total_tasks_count = 20
    /\ progress_data.missed_tasks_count = 6
    /\ recommendation # None
    /\ recommendation.severity = "medium"

\* C11: with total_weeks > 0 and the default threshold, the ahead-of-schedule
\* check fires exactly when completion_percentage >= current_week /
\* total_weeks * 100 + 20, and always with severity low.
C11_AheadThreshold ==
    Evaluated =>
        LET completion == progress_data.completion_percentage
            week       == roadmap_data.current_week
            total      == roadmap_data.total_weeks
        IN  /\ recommendation # None
                  <=> completion * total >= week * 100 + 20 * total
            /\ recommendation # None =>
                  /\ recommendation.should_rebalance
                  /\ recommendation.trigger = "ahead_of_schedule"
                  /\ recommendation.severity = "low"

\* C11 witness: the check has run in week 6 of 12 on a completion of 70
\* percent, exactly 20 above the expected 50, and fired.
C11_Witness ==
    /\ Evaluated
    /\ roadmap_data = [current_week |-> 6, total_weeks |-> 12]
    /\ progress_data.completion_percentage = 70
    /\ recommendation # None

\* C12: given a previous snapshot, the hours check fires exactly when the
\* previous weekly_hours is not 0 and |current - previous| * 100 >= 25 *
\* previous; it has severity medium and its message says "increased" when the
\* current hours are above the previous ones and "decreased" otherwise; with
\* previous weekly_hours = 0 it does not fire and does not raise.
C12_HoursThreshold ==
    Evaluated =>
        LET current  == user_data.weekly_hours
            previous == (CHOOSE d \in previous_user_data : TRUE).weekly_hours
            change   == IF current >= previous THEN current - previous
                        ELSE previous - current
        IN  /\ ~Raised(recommendation)
            /\ recommendation # None
                  <=> (previous # 0 /\ change * 100 >= 25 * previous)
            /\ recommendation # None =>
                  /\ recommendation.should_rebalance
                  /\ recommendation.trigger = "hours_changed"
                  /\ recommendation.severity = "medium"
                  /\ recommendation.message =
                        IF current > previous
                        THEN "Your weekly hours increased. Let's adjust your roadmap accordingly."
                        ELSE "Your weekly hours decreased. Let's adjust your roadmap accordingly."

\* C12 witness: the check has run on 6 hours after 10 and reports a decrease.
C12_Witness ==
    /\ Evaluated
    /\ user_data.weekly_hours = 6
    /\ previous_user_data = { SetKey(CurrentUser, "weekly_hours", 10) }
    /\ recommendation # None
    /\ recommendation.severity = "medium"

\* C13: whenever evaluate is given a previous snapshot whose deadline
\* descriptor differs from the current one, it returns a recommendation of
\* severity high; the trigger is DEADLINE_CHANGED, unless the missed-tasks
\* check fired with severity high in the same call: then it is MISSED_TASKS.
C13_DeadlineChangeIsHigh ==
    ( /\ Evaluated
      /\ TruthyDict(previous_user_data)
      /\ Get(user_data, "deadline_type", "None")
            # Get(CHOOSE d \in previous_user_data : TRUE, "deadline_type", "None") )
    => /\ recommendation.should_rebalance
       /\ recommendation.severity = "high"
       /\ LET missed == CheckMissedTasks(engine, progress_data, roadmap_data)
          IN  recommendation.trigger =
                  IF missed # None /\ missed.severity = "high"
                  THEN "missed_tasks" ELSE "deadline_changed"

\* C13 witness: the deadline has changed while a third of the tasks is missed
\* (severity medium) and the hours have changed too; DEADLINE_CHANGED is returned.
C13_Witness ==
    /\ Evaluated
    /\ Fired = {1, 3, 4}
    /\ CheckResult("missed_tasks").severity = "medium"
    /\ recommendation.trigger = "deadline_changed"

\* C14: every result of evaluate is well-formed.  should_rebalance is false
\* exactly when no check fired, and then the trigger is none and the severity
\* "none"; otherwise should_rebalance is true and (trigger, severity) is one
\* of (MISSED_TASKS, medium or high), (AHEAD_OF_SCHEDULE, low),
\* (HOURS_CHANGED, medium), (DEADLINE_CHANGED, high), (SITUATION_CHANGED,
\* medium).  USER_REQUESTED is never returned.
C14_WellFormedResult ==
    Evaluated =>
        /\ ~Raised(recommendation)
        /\ recommendation.should_rebalance \in BOOLEAN
        /\ ~recommendation.should_rebalance <=> Fired = {}
        /\ ~recommendation.should_rebalance =>
              recommendation.trigger = "none" /\ recommendation.severity = "none"
        /\ recommendation.should_rebalance =>
              <<recommendation.trigger, recommendation.severity>> \in
                  { <<"missed_tasks", "medium">>, <<"missed_tasks", "high">>,
                    <<"ahead_of_schedule", "low">>, <<"hours_changed", "medium">>,
                    <<"deadline_changed", "high">>, <<"situation_changed", "medium">> }
        /\ recommendation.trigger # "user_requested"

\* C14 witness: evaluate has run with a previous snapshot, all five checks
\* stayed silent and the fixed answer came back.
C14_Witness ==
    /\ Evaluated
    /\ TruthyDict(previous_user_data)
    /\ Fired = {}
    /\ recommendation.severity = "none"
    /\ progress_data # <<>>
    /\ progress_data.missed_tasks_count > 0

---------------------------------------------------------------------------
(* Claims about the application *)

\* The types of the application's collections.
AppTypeOK ==
    /\ \A u \in Uids : Cardinality(users[u]) <= 1
    /\ \A u \in Uids : Cardinality(progress_summary[u]) <= 1

\* C16: in every state the application reaches by onboarding, week
\* navigation, task updates and rebalances, the active roadmap version of a
\* user has 1 <= current_week <= total_weeks.
C16_WeekPointerInRange ==
    \A u \in Uids : \A i \in ActiveDocs(roadmaps, u) :
        /\ 1 <= roadmaps[i].current_week
        /\ roadmaps[i].current_week <= roadmaps[i].total_weeks

\* The Task entities of the user's active roadmap version.
ActiveVersionTasks(uid) ==
    {t \in DOMAIN tasks :
        /\ tasks[t].uid = uid
        /\ \E i \in ActiveDocs(roadmaps, uid) :
              tasks[t].roadmap_version = roadmaps[i].roadmap_version}

\* C17: the snapshot update_progress has just written counts only the
\* tasks of the user's active roadmap version: the tasks of earlier versions
\* are in none of total_tasks_count, completed_tasks_count,
\* missed_tasks_count and completion_percentage.
C17_ProgressCountsActiveVersionOnly ==
    (ret.op = "update_progress" /\ ret.ok) =>
        \A p \in progress_summary[ret.uid] :
            LET mine      == ActiveVersionTasks(ret.uid)
                completed == {t \in mine : tasks[t].status = "completed"}
                missed    == {t \in mine : tasks[t].status = "skipped"}
            IN  /\ p.total_tasks_count = Cardinality(mine)
                /\ p.completed_tasks_count = Cardinality(completed)
                /\ p.missed_tasks_count = Cardinality(missed)
                /\ mine # {} =>
                      p.completion_percentage =
                         [float |-> RoundTenths(Cardinality(completed) * 100,
                                                Cardinality(mine))]

AddedTasks == {t \in DOMAIN tasks' : t > Len(tasks)}

C20_GenerateOnceSanitizeBeforeCreate ==
    [][ clock' # clock =>
          /\ pipeline.pc = "continuous"
          /\ pipeline.trace =
                IF TruthyRoadmap(pipeline.generated)
                THEN <<"generate", "sanitize", "continuity">>
                ELSE <<"generate", "fallback", "sanitize", "continuity">>
          /\ \A r \in pipeline.roadmap :
                /\ ~Raised(SanitizeRoadmapOutput(r))
                /\ SanitizeRoadmapOutput(r) = r
                /\ EnsureWeekContinuity(r.phases) = r.phases
      ]_vars

\* C20 witness: a version is stored, and a rebalance whose generation
\* returned nothing is about to call create_roadmap with the fallback body.
C20_Witness ==
    /\ Len(roadmaps) >= 1
    /\ pipeline.pc = "continuous"
    /\ pipeline.path \in {"life_event", "manual"}
    /\ ~TruthyRoadmap(pipeline.generated)

\* C21: update_current_week changes only the current_week field of the
\* user's active version: the inactive versions, the other fields of the
\* active version, the other users' versions and the tasks are as they
\* were; with no active version it returns False and changes nothing.
C21_UpdateCurrentWeekFrame ==
    [][ ret'.op = "update_current_week" =>
          /\ tasks' = tasks
          /\ Len(roadmaps') = Len(roadmaps)
          /\ ret'.ok = (ActiveDocs(roadmaps, ret'.uid) # {})
          /\ \A i \in DOMAIN roadmaps :
                IF i \in ActiveDocs(roadmaps, ret'.uid)
                THEN Without(roadmaps'[i], "current_week")
                        = Without(roadmaps[i], "current_week")
                ELSE roadmaps'[i] = roadmaps[i]
      ]_vars

\* C21 witness: the pointer of a user's active version has been moved to
\* week 2 while an inactive version of hers still points at week 1 and
\* another user has a version of her own.
C21_Witness ==
    /\ ret.op = "update_current_week"
    /\ ret.ok
    /\ roadmaps[ret.id].current_week = 2
    /\ \E i \in UserDocs(roadmaps, ret.uid) :
          ~roadmaps[i].is_active /\ roadmaps[i].current_week = 1
    /\ \E u \in Uids \ {ret.uid} : ActiveDocs(roadmaps, u) # {}

\* C21 witness of the other case: the call found no active version.
C21_NoActiveVersion ==
    ret.op = "update_current_week" /\ ~ret.ok

\* C22: in every state the application reaches by profile edits, life-event
\* rebalances and manual rebalances, the weekly_hours of a user's profile is
\* within [3, 40].
C22_WeeklyHoursInRange ==
    \A u \in Uids : \A d \in users[u] :
        3 <= d.weekly_hours /\ d.weekly_hours <= 40

\* What of a stored version is fixed at creation.
Snapshot(doc) == Without(Without(doc, "is_active"), "current_week")

\* C23: a roadmap version is immutable once created.  No step changes the
\* phases, weeks, week numbers, task strings, total_weeks, owner or version
\* stamp of a stored version; is_active changes only from true to false and
\* only in a create_roadmap call; current_week changes only on the active
\* version and only outside create_roadmap (week navigation).
C23_VersionImmutable ==
    [][ \A i \in DOMAIN roadmaps :
          /\ i \in DOMAIN roadmaps'
          /\ Snapshot(roadmaps'[i]) = Snapshot(roadmaps[i])
          /\ roadmaps'[i].is_active # roadmaps[i].is_active =>
                roadmaps[i].is_active /\ clock' # clock
          /\ roadmaps'[i].current_week # roadmaps[i].current_week =>
                roadmaps[i].is_active /\ clock' = clock
      ]_vars

\* C23 witness: a version whose pointer was moved and which was then
\* deactivated by a rebalance sits next to its successor.
C23_Witness ==
    \E i, j \in DOMAIN roadmaps :
        /\ i < j
        /\ roadmaps[i].uid = roadmaps[j].uid
        /\ ~roadmaps[i].is_active
        /\ roadmaps[i].current_week > 1
        /\ roadmaps[j].is_active
        /\ roadmaps[j].total_weeks # roadmaps[i].total_weeks

\* C24: when a call to the backend raises inside create_roadmap the method
\* returns None, inside update_current_week, update_task_status or
\* update_user it returns False, and no exception leaves the method.
C24_FailureReported ==
    (ret.op # "none" /\ ret.failed # {}) =>
        /\ ~ret.raised
        /\ ~ret.ok
        /\ ret.op = "create_roadmap" => ret.id = 0

\* The defaults the specification documents for a week.
WeekDefaults ==
    [week_number    |-> 1,
     focus_skill    |-> "General Learning",
     tasks          |-> <<>>,
     milestone      |-> "Complete weekly tasks",
     success_metric |-> "All tasks completed"]

\* C25: after sanitize_roadmap_output every phase has a phase_name and a
\* list of weeks and every week has week_number, focus_skill, tasks,
\* milestone and success_metric; a field that was missing has its default
\* ("Unnamed Phase" for the phase name) and a field that was present has the
\* value it had; no phase or week is added, dropped or moved.
C25_DefaultsFilledValuesKept ==
    \A k \in DOMAIN passes :
        (passes[k] = "sanitize" /\ ~Raised(sanitized[k])) =>
            LET before == Get(BodyBefore(k), "phases", <<>>)
                after  == sanitized[k].phases
            IN  /\ Len(after) = Len(before)
                /\ \A i \in DOMAIN after :
                      LET bw == Get(before[i], "weeks", <<>>)
                          aw == after[i].weeks
                      IN  /\ DOMAIN after[i] = DOMAIN before[i] \cup {"phase_name", "weeks"}
                          /\ after[i].phase_name
                                = Get(before[i], "phase_name", "Unnamed Phase")
                          /\ Len(aw) = Len(bw)
                          /\ \A j \in DOMAIN aw :
                                /\ DOMAIN aw[j] = DOMAIN bw[j] \cup DOMAIN WeekDefaults
                                /\ \A f \in DOMAIN aw[j] :
                                      aw[j][f] = IF f \in DOMAIN bw[j]
                                                 THEN bw[j][f] ELSE WeekDefaults[f]

\* C25 witness: sanitize has run on a body with a phase without a name, a
\* week without any field and a week that had all five.
C25_Witness ==
    /\ passes # <<>>
    /\ passes[1] = "sanitize"
    /\ ~Raised(sanitized[1])
    /\ "phases" \in DOMAIN body
    /\ \E i \in DOMAIN body.phases : "phase_name" \notin DOMAIN body.phases[i]
    /\ \E n \in DOMAIN FlatWeeks(body.phases) : FlatWeeks(body.phases)[n] = <<>>
    /\ \E n \in DOMAIN FlatWeeks(body.phases) :
          /\ DOMAIN WeekDefaults \subseteq DOMAIN FlatWeeks(body.phases)[n]
          /\ FlatWeeks(body.phases)[n].week_number = 5

\* C26: from a version with 1 <= current_week <= total_weeks, advance_week,
\* "Next Week" and "Previous Week" keep the pointer in that range and move
\* it by exactly 1 when they move it; in the last week nothing advances the
\* pointer, and advance_week returns False only there, writing nothing.
C26_NavigationKeepsRange ==
    [][ \A i \in DOMAIN roadmaps :
          LET cw == roadmaps[i].current_week
              tw == roadmaps[i].total_weeks
          IN  (clock' = clock /\ 1 <= cw /\ cw <= tw) =>
                 /\ 1 <= roadmaps'[i].current_week
                 /\ roadmaps'[i].current_week <= tw
                 /\ roadmaps'[i].current_week \in {cw - 1, cw, cw + 1}
                 /\ (roadmaps[i].is_active /\ clicks' # clicks
                       /\ ret'.op = "advance_week" /\ ret'.uid = roadmaps[i].uid) =>
                        /\ cw = tw
                        /\ ~ret'.ok
                        /\ roadmaps' = roadmaps
                        /\ progress_summary' = progress_summary
      ]_vars

\* C26 witness: the pointer has been moved to the last week, which is not
\* the first, and advance_week has then returned False.
C26_Witness ==
    /\ ret.op = "advance_week"
    /\ ~ret.ok
    /\ \E i \in ActiveDocs(roadmaps, ret.uid) :
          /\ roadmaps[i].current_week = roadmaps[i].total_weeks
          /\ roadmaps[i].current_week > 1

\* C27: simple_rebalance with 1 <= current_week <= total_weeks and new
\* weekly hours that differ from the original ones returns total_weeks =
\* current_week + floor((total_weeks - current_week) * original / new),
\* which is never below current_week, never shorter with fewer hours and
\* never longer with more; with the new hours absent or equal to the
\* original ones total_weeks is unchanged.
C27_RemainingWeeksScaled ==
    pipeline.pc = "rebalanced" =>
        LET cw     == pipeline.progress.current_week
            tw     == pipeline.current_roadmap.total_weeks.int
            o      == pipeline.original_weekly_hours
            result == pipeline.rebalanced.total_weeks.int
        IN  /\ pipeline.new_weekly_hours \subseteq {o} => result = tw
            /\ \A h \in pipeline.new_weekly_hours \ {o} :
                  /\ result = cw + ((tw - cw) * o) \div h
                  /\ result >= cw
                  /\ h < o => result >= tw
                  /\ h > o => result <= tw

\* C28: a rebalance carries the week pointer over: the version a life-event
\* or manual rebalance adds has the current_week of the active version it
\* replaces, whatever week navigation came before.
C28_PointerCarriedOver ==
    [][ \A i \in DOMAIN roadmaps :
          ( /\ roadmaps[i].is_active
            /\ Len(roadmaps') = Len(roadmaps) + 1
            /\ roadmaps'[Len(roadmaps')].uid = roadmaps[i].uid )
          => roadmaps'[Len(roadmaps')].current_week = roadmaps[i].current_week
      ]_vars

\* C29: a version persisted from a body that get_fallback_roadmap (at
\* onboarding) or simple_rebalance (in a rebalance) made has as many weeks,
\* all phases together, as its total_weeks says, numbered 1..total_weeks.
C29_FallbackTotalMatchesWeeks ==
    [][ ( /\ pipeline.pc = "continuous"
          /\ \E n \in DOMAIN pipeline.trace : pipeline.trace[n] = "fallback"
          /\ Len(roadmaps') = Len(roadmaps) + 1 )
        => LET new   == roadmaps'[Len(roadmaps')]
               weeks == FlatWeeks(new.phases)
           IN  /\ Len(weeks) = new.total_weeks
               /\ \A n \in DOMAIN weeks : weeks[n].week_number = n
      ]_vars

\* C30: a create_roadmap call that returns None leaves the store as it was:
\* the version that was active is still active, no version and no task has
\* been added.
C30_FailedCreateChangesNothing ==
    [][ ( /\ clock' # clock
          /\ ret'.op = "create_roadmap"
          /\ ~ret'.ok )
        => /\ roadmaps' = roadmaps
           /\ tasks' = tasks
      ]_vars

=============================================================================
